---- MODULE Spec2Model ----
(***************************************************************************)
(* A model of jv (Java Version Switcher): the environment-store rewrite    *)
(* (internal/env), the JDK install pipeline (internal/installer), the      *)
(* inventory kept in the configuration (internal/config) and the           *)
(* self-update pipeline (internal/updater).                                *)
(*                                                                         *)
(* Strings are sequences of one-character strings, so that the string      *)
(* functions of the code (case mapping, trimming, splitting, joining,      *)
(* cleaning) are computed the way the code computes them.                  *)
(***************************************************************************)
EXTENDS Integers, Sequences, FiniteSets, TLC

VARIABLES
    \* InstallVersion fetching the download information under a spinner (SpecFetch)
    ivPc, goPc, progPc, ivResponse, ivDownloadInfo, ivFetchErr, ivSpinnerErr, ivInfo, ivErr,
    \* updatePath applied twice (SpecRewrite)
    rwCurrent, rwOld, rwNew, rwOnce, rwTwice, rwPc,
    \* the system environment key of the registry and a call of SetJavaHome
    regHome, regPath, broadcasts,
    sjhPc, sjhJavaPath, sjhCurrentPath, sjhOldJavaHome, sjhResult, sjhCalls,
    \* a call of InstallJDK: its position, its arguments and locals, the
    \* staging directory, the final install path, what it returned, and the
    \* phases it has started
    ijPc, ijVersion, ijSystemWide, ijChecksum, ijServed,
    stagingExists, zipFile, extractFiles, bgExtract,
    ijTransfer, ijDownloaded, ijExtractedPath, ijFinalBefore, finalDir, ijErr, ijPath, ijPhases,
    \* the configuration: the inventory in memory, the custom paths, the
    \* inventory on disk, the last operation on it, the clock, and the
    \* (version, path) pairs for which InstallVersion succeeded
    installedJDKs, customPaths, savedJDKs, cfgLast, cfgClock, pipelineOk,
    \* a run of the update command: the files at the executable's path and at
    \* the backup path, the position in PerformUpdate, the release asset, the
    \* executable's content when the run started, what the backup, the
    \* replacement and the rollback did, the executable's file right after the
    \* replacement step, the errors, the line shown to the user, whether the
    \* delayed removal of the backup is pending, and the number of runs
    updFiles, updPc, updAsset, updOriginal, updBackup, updReplace, updRollback, updAfterReplace,
    updUpdateErr, updRollbackErr, updErr, updShown, cleanupPending, updRuns,
    \* the background update check over the invocations of the tool: the
    \* clock in hours, the update settings and the last-check time of the
    \* configuration file, the position of the check in this invocation, the
    \* times at which the release source was queried, the failure inside the
    \* check of this invocation, what it printed, the exit status of the
    \* process, and the number of invocations
    clock, cfgEnabled, cfgAutoCheck, savedLastCheck, bgPc, queries, bgFailure, bgOutput,
    exitStatus, invocations,
    \* the version menu of an install flow: the call (flow, what the fetch of
    \* the version list did, how the spinner ended), the versions the menu
    \* offers, whether the menu was shown, the lines printed, the versions
    \* returned, and the error returned
    menuCall, menuOptions, menuShown, menuOutput, menuSelected, menuErr,
    \* the update check: the version of the running tool, the skipped
    \* version of the configuration in memory and on disk, the version of
    \* the latest release that CheckForUpdate found, what it returned, and
    \* the versions SkipVersion was called with
    chkVersion, chkSkip, chkSavedSkip, chkLatest, chkResult, chkSkipped

rwVars == <<rwCurrent, rwOld, rwNew, rwOnce, rwTwice, rwPc>>

envVars == <<regHome, regPath, broadcasts,
             sjhPc, sjhJavaPath, sjhCurrentPath, sjhOldJavaHome, sjhResult, sjhCalls>>

ijVars == <<ijPc, ijVersion, ijSystemWide, ijChecksum, ijServed,
            stagingExists, zipFile, extractFiles, bgExtract,
            ijTransfer, ijDownloaded, ijExtractedPath, ijFinalBefore, finalDir, ijErr, ijPath, ijPhases>>

cfgVars == <<installedJDKs, customPaths, savedJDKs, cfgLast, cfgClock, pipelineOk>>

updVars == <<updFiles, updPc, updAsset, updOriginal, updBackup, updReplace, updRollback,
             updAfterReplace, updUpdateErr, updRollbackErr, updErr, updShown,
             cleanupPending, updRuns>>

bgVars == <<clock, cfgEnabled, cfgAutoCheck, savedLastCheck, bgPc, queries, bgFailure, bgOutput,
            exitStatus, invocations>>

menuVars == <<menuCall, menuOptions, menuShown, menuOutput, menuSelected, menuErr>>

chkVars == <<chkVersion, chkSkip, chkSavedSkip, chkLatest, chkResult, chkSkipped>>

fetchVars == <<ivPc, goPc, progPc, ivResponse, ivDownloadInfo, ivFetchErr, ivSpinnerErr, ivInfo, ivErr>>

vars == <<rwVars, envVars, ijVars, cfgVars, updVars, bgVars, menuVars, chkVars, fetchVars>>

(***************************************************************************)
(* Bounds of the model.                                                    *)
(***************************************************************************)
\* The largest number of segments of an initial search-path value.
MaxSegs == 2

\* The largest number of SetJavaHome calls in one behaviour.
MaxCalls == 2

\* The length of an archive in bytes; a download delivers 0..MaxBytes bytes.
MaxBytes == 2

\* The largest number of operations on the configuration in one behaviour.
MaxOps == 3

\* The largest number of runs of the update command in one behaviour.
MaxUpdates == 2

\* The largest number of invocations of the tool in one behaviour of the
\* background check, and the hour at which the clock stops.
MaxInvocations == 3

MaxHours == 72

\* The longest available_releases list in a response of the release source.
MaxReleases == 2

(***************************************************************************)
(* Characters and the string functions of Go's strings and path/filepath.  *)
(***************************************************************************)
LowerLetters ==
    <<"a","b","c","d","e","f","g","h","i","j","k","l","m",
      "n","o","p","q","r","s","t","u","v","w","x","y","z">>

UpperLetters ==
    <<"A","B","C","D","E","F","G","H","I","J","K","L","M",
      "N","O","P","Q","R","S","T","U","V","W","X","Y","Z">>

LetterIndex(c, letters) ==
    IF \E i \in DOMAIN letters : letters[i] = c
    THEN CHOOSE i \in DOMAIN letters : letters[i] = c
    ELSE 0

\* unicode.ToLower / unicode.ToUpper on one character.
LowerChar(c) ==
    LET i == LetterIndex(c, UpperLetters) IN IF i = 0 THEN c ELSE LowerLetters[i]

\* strings.ToLower, strings.ToUpper
ToLower(s) == [i \in DOMAIN s |-> LowerChar(s[i])]

ToUpper(s) ==
    [i \in DOMAIN s |->
        LET k == LetterIndex(s[i], LowerLetters) IN IF k = 0 THEN s[i] ELSE UpperLetters[k]]

\* strings.EqualFold: equality under simple case folding.
EqualFold(s, t) ==
    /\ Len(s) = Len(t)
    /\ \A i \in DOMAIN s : LowerChar(s[i]) = LowerChar(t[i])

\* strings.Contains
Contains(s, sub) ==
    \E i \in 1..(Len(s) - Len(sub) + 1) : SubSeq(s, i, i + Len(sub) - 1) = sub

\* strings.TrimSpace
RECURSIVE TrimLeft(_)
TrimLeft(s) ==
    IF s # <<>> /\ (Head(s) \in {" ", "\t"}) THEN TrimLeft(Tail(s)) ELSE s

RECURSIVE TrimRight(_)
TrimRight(s) ==
    IF s # <<>> /\ (s[Len(s)] \in {" ", "\t"}) THEN TrimRight(SubSeq(s, 1, Len(s) - 1)) ELSE s

TrimSpace(s) == TrimRight(TrimLeft(s))

\* strings.Split(s, sep) for a one-character separator: always at least one
\* element, the empty string included.
RECURSIVE SplitFrom(_, _, _)
SplitFrom(s, sep, cur) ==
    IF s = <<>> THEN <<cur>>
    ELSE IF Head(s) = sep THEN <<cur>> \o SplitFrom(Tail(s), sep, <<>>)
    ELSE SplitFrom(Tail(s), sep, Append(cur, Head(s)))

Split(s, sep) == SplitFrom(s, sep, <<>>)

\* strings.Join(elems, sep) for a one-character separator.
RECURSIVE Join(_, _)
Join(elems, sep) ==
    IF elems = <<>> THEN <<>>
    ELSE IF Len(elems) = 1 THEN elems[1]
    ELSE elems[1] \o <<sep>> \o Join(Tail(elems), sep)

IsSeparator(c) == c \in {"\\", "/"}

\* The elements of a path: it is split at every separator.
RECURSIVE ElementsFrom(_, _)
ElementsFrom(s, cur) ==
    IF s = <<>> THEN <<cur>>
    ELSE IF IsSeparator(Head(s)) THEN <<cur>> \o ElementsFrom(Tail(s), <<>>)
    ELSE ElementsFrom(Tail(s), Append(cur, Head(s)))

Dot == <<".">>

\* The elements that remain, in order: out is the result so far.
RECURSIVE CleanElements(_, _, _)
CleanElements(elems, out, rooted) ==
    IF elems = <<>> THEN out
    ELSE LET e == Head(elems)
             rest == Tail(elems)
         IN IF e = <<>> \/ e = Dot THEN CleanElements(rest, out, rooted)
            ELSE IF e = (<<".", ".">>)
                 THEN IF out # <<>> /\ out[Len(out)] # (<<".", ".">>)
                      THEN CleanElements(rest, SubSeq(out, 1, Len(out) - 1), rooted)
                      ELSE IF rooted THEN CleanElements(rest, out, rooted)
                      ELSE CleanElements(rest, Append(out, e), rooted)
                 ELSE CleanElements(rest, Append(out, e), rooted)

Clean(s) ==
    LET vol == IF (Len(s) >= 2 /\ s[2] = ":") THEN SubSeq(s, 1, 2) ELSE <<>>
        path == IF (Len(s) >= 2 /\ s[2] = ":") THEN SubSeq(s, 3, Len(s)) ELSE s
        rooted == path # <<>> /\ IsSeparator(Head(path))
        elems == CleanElements(ElementsFrom(path, <<>>), <<>>, rooted)
        body == (IF rooted THEN <<"\\">> ELSE <<>>) \o Join(elems, "\\")
    IN IF body = <<>> THEN vol \o Dot ELSE vol \o body

\* filepath.Join(dir, name) for two non-empty elements.
FilepathJoin(dir, name) == Clean(dir \o <<"\\">> \o name)

Bin == <<"b","i","n">>

\* The literal "%JAVA_HOME%\\bin" of windows.go.
JavaHomeBinRef == <<"%","J","A","V","A","_","H","O","M","E","%","\\","b","i","n">>


\* The filter of updatePath with a test for the reference that looks for
\* the upper-case spelling only.
KeepsSegmentExactCase(p, oldJavaHome) ==
    /\ p # <<>>
    /\ oldJavaHome # <<>> =>
          /\ ~EqualFold(p, FilepathJoin(oldJavaHome, Bin))
          /\ ~EqualFold(p, JavaHomeBinRef)
          /\ ~Contains(ToLower(p), ToLower(oldJavaHome))
    /\ ~Contains(p, <<"%","J","A","V","A","_","H","O","M","E","%">>)

(***************************************************************************)
(* env.updatePath                                                          *)
(***************************************************************************)
\* The test of the loop body: TRUE when the trimmed segment p is appended.
KeepsSegment(p, oldJavaHome) ==
    /\ p # <<>>
    /\ oldJavaHome # <<>> =>
          /\ ~EqualFold(p, FilepathJoin(oldJavaHome, Bin))
          /\ ~EqualFold(p, JavaHomeBinRef)
          /\ ~Contains(ToLower(p), ToLower(oldJavaHome))
    /\ ~Contains(ToUpper(p), <<"%","J","A","V","A","_","H","O","M","E","%">>)

\* A loop that puts each kept segment in front of the ones kept before it.
RECURSIVE FilterPathsNewestFirst(_, _)
FilterPathsNewestFirst(paths, oldJavaHome) ==
    IF paths = <<>> THEN <<>>
    ELSE LET p == TrimSpace(Head(paths)) IN
         IF KeepsSegment(p, oldJavaHome)
         THEN FilterPathsNewestFirst(Tail(paths), oldJavaHome) \o <<p>>
         ELSE FilterPathsNewestFirst(Tail(paths), oldJavaHome)

\* The loop of updatePath over the segments: the kept segments, trimmed, in
\* their order.
RECURSIVE FilterPaths(_, _)
FilterPaths(paths, oldJavaHome) ==
    IF paths = <<>> THEN <<>>
    ELSE LET p == TrimSpace(Head(paths)) IN
         IF KeepsSegment(p, oldJavaHome)
         THEN <<p>> \o FilterPaths(Tail(paths), oldJavaHome)
         ELSE FilterPaths(Tail(paths), oldJavaHome)

updatePath(currentPath, oldJavaHome, newJavaHome) ==
    Join(<<JavaHomeBinRef>> \o FilterPaths(Split(currentPath, ";"), oldJavaHome), ";")

(***************************************************************************)
(* The inputs of the environment model: home directories and segments.     *)
(***************************************************************************)
HomeX == <<"C",":","\\","X">>
HomeY == <<"C",":","\\","Y">>
NoHome == <<>>

HomePool == {HomeX, <<"c",":","\\","x">>, (<<"C",":","\\","X","\\">>), HomeY, NoHome}

SegOther == <<"D",":","\\","T">>

SegmentPool ==
    {<<"C",":","\\","X","\\","b","i","n">>,
     <<"c",":","\\","x","\\","B","I","N">>,
     <<"C",":","\\","Y","\\","b","i","n">>,
     JavaHomeBinRef,
     <<"%","j","a","v","a","_","h","o","m","e","%","\\","b","i","n">>,
     <<"%","J","a","v","a","_","H","o","m","e","%","\\","l","i","b">>,
     SegOther,
     <<"C",":","\\","X","Y","\\","b","i","n">>,
     <<" ","D",":","\\","T"," ">>,
     <<" ">>,
     <<>>}

\* The search-path values the store can hold at the start: up to MaxSegs
\* segments joined by ";".
PathPool == {Join(l, ";") : l \in UNION {[1..n -> SegmentPool] : n \in 0..MaxSegs}}

(***************************************************************************)
(* env.SetJavaHome on the registry key of the system environment.          *)
(* A registry value is a record: present, and its string when present.     *)
(***************************************************************************)
Missing == [present |-> FALSE, val |-> <<>>]

Value(s) == [present |-> TRUE, val |-> s]

\* key.GetStringValue(name): the string, or an error when the value is missing.
GetStringValue(v) == IF v.present THEN v.val ELSE <<>>

\* SetJavaHome that goes on to the writes when the key did not open.
SetJavaHomeBeginUnopened(javaPath, openOk, setHomeOk) ==
    /\ sjhPc = "idle"
    /\ sjhCalls < MaxCalls
    /\ sjhCalls' = sjhCalls + 1
    /\ sjhJavaPath' = Clean(javaPath)
    /\ UNCHANGED <<regPath, broadcasts>>
    /\ sjhCurrentPath' = GetStringValue(regPath)
    /\ sjhOldJavaHome' = GetStringValue(regHome)
    /\ regHome' = Value(Clean(javaPath))
    /\ sjhResult' = IF openOk THEN "running" ELSE "errOpenKey"
    /\ sjhPc' = IF openOk THEN "homeWritten" ELSE "idle"

\* SetJavaHome up to and including the write of JAVA_HOME (windows.go 26-49).
\* openOk: registry.OpenKey succeeds; setHomeOk: SetStringValue succeeds.
SetJavaHomeBegin(javaPath, openOk, setHomeOk) ==
    /\ sjhPc = "idle"
    /\ sjhCalls < MaxCalls
    /\ sjhCalls' = sjhCalls + 1
    /\ sjhJavaPath' = Clean(javaPath)
    /\ UNCHANGED <<regPath, broadcasts>>
    /\ IF ~openOk
       THEN /\ sjhResult' = "errOpenKey"
            /\ UNCHANGED <<regHome, sjhPc, sjhCurrentPath, sjhOldJavaHome>>
       ELSE IF ~regPath.present
       THEN /\ sjhResult' = "errReadPath"
            /\ UNCHANGED <<regHome, sjhPc, sjhCurrentPath, sjhOldJavaHome>>
       ELSE /\ sjhCurrentPath' = GetStringValue(regPath)
            /\ sjhOldJavaHome' = GetStringValue(regHome)
            /\ IF ~setHomeOk
               THEN /\ sjhResult' = "errSetJavaHome"
                    /\ UNCHANGED <<regHome, sjhPc>>
               ELSE /\ regHome' = Value(Clean(javaPath))
                    /\ sjhResult' = "running"
                    /\ sjhPc' = "homeWritten"

\* The end of SetJavaHome with the broadcast sent whether or not the write
\* of Path succeeded.
SetJavaHomeFinishBroadcasting(setPathOk) ==
    /\ sjhPc = "homeWritten"
    /\ sjhPc' = "idle"
    /\ broadcasts' = broadcasts + 1
    /\ UNCHANGED <<regHome, sjhJavaPath, sjhCurrentPath, sjhOldJavaHome, sjhCalls>>
    /\ IF setPathOk
       THEN /\ regPath' = Value(updatePath(sjhCurrentPath, sjhOldJavaHome, sjhJavaPath))
            /\ sjhResult' = "ok"
       ELSE /\ sjhResult' = "errSetPath"
            /\ UNCHANGED regPath

\* The rest of SetJavaHome: the write of Path and the broadcast
\* (windows.go 51-60). setPathOk: SetExpandStringValue succeeds.
SetJavaHomeFinish(setPathOk) ==
    /\ sjhPc = "homeWritten"
    /\ sjhPc' = "idle"
    /\ UNCHANGED <<regHome, sjhJavaPath, sjhCurrentPath, sjhOldJavaHome, sjhCalls>>
    /\ IF setPathOk
       THEN /\ regPath' = Value(updatePath(sjhCurrentPath, sjhOldJavaHome, sjhJavaPath))
            /\ broadcasts' = broadcasts + 1
            /\ sjhResult' = "ok"
       ELSE /\ sjhResult' = "errSetPath"
            /\ UNCHANGED <<regPath, broadcasts>>

\* A segment that names the bin subfolder of home literally.
IsLiteralBin(seg, home) == EqualFold(seg, FilepathJoin(home, Bin))

\* C2: after a successful SetJavaHome(H) the stored Path has at most one
\* segment that refers to H's bin subfolder, and it is %JAVA_HOME%\bin,
\* never the literal H\bin.
C2_AtMostOneVariableRef ==
    (sjhResult = "ok") =>
        LET segs == Split(regPath.val, ";")
            refs == {i \in DOMAIN segs :
                        IsLiteralBin(segs[i], regHome.val) \/ EqualFold(segs[i], JavaHomeBinRef)}
        IN /\ Cardinality(refs) <= 1
           /\ \A i \in refs : ~IsLiteralBin(segs[i], regHome.val)

\* C12: when SetJavaHome(H) has written JAVA_HOME and failed before writing
\* Path, the next SetJavaHome(H) brings the store to the state that the
\* interrupted call would have produced: the Path it computes from the store
\* (and writes when it succeeds) is the Path that the interrupted call had
\* computed from the original store. JAVA_HOME is Clean(H) in both.
C12_SelfCorrecting ==
    [][ (sjhResult = "errSetPath" /\ sjhPc' = "homeWritten" /\ sjhJavaPath' = sjhJavaPath) =>
            updatePath(sjhCurrentPath', sjhOldJavaHome', sjhJavaPath')
                = updatePath(sjhCurrentPath, sjhOldJavaHome, sjhJavaPath)
      ]_vars

\* C15: a Path value that is missing from the store is read as the empty
\* list: SetJavaHome never fails because of it, and a call that succeeds on
\* an empty current list leaves JAVA_HOME set and the Path %JAVA_HOME%\bin.
C15_MissingPathIsEmpty ==
    /\ sjhResult # "errReadPath"
    /\ (sjhResult = "ok" /\ sjhCurrentPath = <<>>) =>
          /\ regHome = Value(sjhJavaPath)
          /\ regPath = Value(JavaHomeBinRef)

\* C16: when the registry key cannot be opened, SetJavaHome returns the
\* error at once (it is not in the middle of a call afterwards), JAVA_HOME
\* and Path keep their values and no broadcast is sent.
C16_PrivilegeFailure ==
    [][ (sjhCalls' # sjhCalls /\ sjhResult' = "errOpenKey") =>
            /\ sjhPc' = "idle"
            /\ regHome' = regHome
            /\ regPath' = regPath
            /\ broadcasts' = broadcasts
      ]_vars

\* A call on a store that holds both values has failed to open the key.
C16_Witness ==
    /\ sjhResult = "errOpenKey"
    /\ sjhPc = "idle"
    /\ regHome.present
    /\ regPath.present
    /\ broadcasts = 0

\* C24: in every call of SetJavaHome the write of JAVA_HOME comes before the
\* write of Path: a step that changes Path finds JAVA_HOME already set to
\* the new home and leaves it, so a reader of the store never sees the old
\* home with the new Path; the broadcast is sent only by the step that
\* completes both writes, and a call in which a write fails sends none.
C24_WriteOrder ==
    [][ /\ regPath' # regPath =>
              /\ sjhPc = "homeWritten"
              /\ regHome = Value(sjhJavaPath)
              /\ regHome' = regHome
              /\ regPath' = Value(updatePath(sjhCurrentPath, sjhOldJavaHome, sjhJavaPath))
        /\ regHome' # regHome =>
              /\ regPath' = regPath
              /\ regHome' = Value(sjhJavaPath')
        /\ broadcasts' # broadcasts =>
              /\ broadcasts' = broadcasts + 1
              /\ sjhResult' = "ok"
              /\ regHome' = Value(sjhJavaPath)
              /\ regPath' = Value(updatePath(sjhCurrentPath, sjhOldJavaHome, sjhJavaPath))
        /\ sjhResult' \in {"errSetJavaHome", "errSetPath"} => broadcasts' = broadcasts
      ]_vars

\* Between the two writes: the store holds the new home with the old Path,
\* which is not the Path the call is going to write.
C24_Witness ==
    /\ sjhPc = "homeWritten"
    /\ regHome = Value(sjhJavaPath)
    /\ sjhOldJavaHome # sjhJavaPath
    /\ regPath = Value(sjhCurrentPath)
    /\ updatePath(sjhCurrentPath, sjhOldJavaHome, sjhJavaPath) # sjhCurrentPath
    /\ broadcasts = 0

(***************************************************************************)
(* The install pipeline (installer.InstallJDK and what it calls).          *)
(***************************************************************************)
\* An error is the sequence of the messages that fmt.Errorf wraps, the
\* outermost first; no error (nil) is the empty sequence.
Nil == <<>>

Wrap(msg, err) == <<msg>> \o err

\* strings.HasPrefix
HasPrefix(s, prefix) ==
    Len(s) >= Len(prefix) /\ SubSeq(s, 1, Len(prefix)) = prefix

DistributorName == <<"E","c","l","i","p","s","e"," ","A","d","o","p","t","i","u","m">>

\* The version identifiers offered for installation.
Version17 == <<"1","7">>

Version21 == <<"2","1">>

VersionPool == {Version17, Version21}

\* installBase of InstallJDK.
InstallBase(isSystemWide) ==
    IF isSystemWide
    THEN FilepathJoin(<<"C",":","\\","P","r","o","g","r","a","m"," ","F","i","l","e","s">>, DistributorName)
    ELSE FilepathJoin((<<"C",":","\\","U">>), <<".","j","v">>)

\* finalPath of InstallJDK: installBase joined with "jdk-<version>".
FinalPath(isSystemWide, version) ==
    FilepathJoin(InstallBase(isSystemWide), <<"j","d","k","-">> \o version)

TempExtractDir == FilepathJoin((FilepathJoin((<<"C",":","\\","T">>), <<"j","v","-","i","n","s","t","a","l","l">>)), <<"e","x","t","r","a","c","t">>)

\* An archive is the sequence of its entries: the name as zip stores it
\* (with forward slashes) and whether the entry is a directory.
DirEntry(name) == [name |-> name, dir |-> TRUE]

FileEntry(name) == [name |-> name, dir |-> FALSE]

\* The archives the download can serve: a JDK archive as Adoptium publishes
\* it, an archive with a jdk root and no bin\java.exe, an archive
\* without a directory entry whose name starts with "jdk", and an archive
\* whose entry names leave the directory ("..") or are absolute.
Archives ==
    << <<DirEntry(<<"j","d","k","-","2","1","/">>), DirEntry(<<"j","d","k","-","2","1","/","b","i","n","/">>), FileEntry(<<"j","d","k","-","2","1","/","b","i","n","/","j","a","v","a",".","e","x","e">>)>>,
       <<DirEntry(<<"j","d","k","-","2","1","/">>), FileEntry(<<"j","d","k","-","2","1","/","r","e","l","e","a","s","e">>)>>,
       <<DirEntry(<<"b","i","n","/">>), FileEntry(<<"b","i","n","/","j","a","v","a",".","e","x","e">>)>>,
       <<FileEntry(<<".",".","/",".",".","/","e",".","e","x","e">>), FileEntry(<<"/","a",".","e","x","e">>)>> >>

\* The largest number of entries of an archive.
MaxEntries == 3

ArchiveIds == DOMAIN Archives

\* A file of the staging directory that holds the first len bytes of the
\* archive the server sent; every archive is MaxBytes long.
NoFile == [exists |-> FALSE, archive |-> 0, len |-> 0]

FileOf(archive, len) == [exists |-> TRUE, archive |-> archive, len |-> len]

\* hex.EncodeToString(sha256 of the file): lower-case hex digits, a
\* different digest for every content.
Sha256Hex(file) ==
    << <<"a","b","c","d","e","f">>[file.archive + 1],
       <<"0","1","2","3","4","5","6","7","8","9">>[file.len + 1] >>

\* A DownloadFile without the comparison of the bytes written with the
\* declared content length.
DownloadFileUnchecked(net, served, totalSize, sent) ==
    IF net = "createFail"
    THEN [err |-> <<"failed to create file">>, file |-> NoFile]
    ELSE IF net = "getFail"
    THEN [err |-> <<"failed to download">>, file |-> FileOf(served, 0)]
    ELSE IF net = "badStatus"
    THEN [err |-> <<"download failed with status">>, file |-> FileOf(served, 0)]
    ELSE IF net = "copyFail"
    THEN [err |-> <<"failed to write file">>, file |-> FileOf(served, sent)]
    ELSE [err |-> Nil, file |-> FileOf(served, sent)]

\* installer.DownloadFile. net is what the network and the disk do:
\* "createFail" (os.Create fails), "getFail" (http.Get fails), "badStatus",
\* "copyFail" (io.Copy returns an error after sent bytes) or "copied";
\* totalSize is resp.ContentLength, sent the bytes io.Copy wrote.
\* The result is the error and the destination file.
DownloadFile(net, served, totalSize, sent) ==
    IF net = "createFail"
    THEN [err |-> <<"failed to create file">>, file |-> NoFile]
    ELSE IF net = "getFail"
    THEN [err |-> <<"failed to download">>, file |-> FileOf(served, 0)]
    ELSE IF net = "badStatus"
    THEN [err |-> <<"download failed with status">>, file |-> FileOf(served, 0)]
    ELSE IF net = "copyFail"
    THEN [err |-> <<"failed to write file">>, file |-> FileOf(served, sent)]
    ELSE IF sent # totalSize
    THEN [err |-> <<"incomplete download">>, file |-> FileOf(served, sent)]
    ELSE [err |-> Nil, file |-> FileOf(served, sent)]

\* installer.VerifyChecksum
VerifyChecksum(file, expectedChecksum) ==
    IF ~file.exists THEN <<"failed to open file">>
    ELSE IF ~EqualFold(Sha256Hex(file), expectedChecksum) THEN <<"checksum mismatch">>
    ELSE Nil

\* The root directory that ExtractZip looks for: the first element of the
\* name of the first directory entry whose name starts with "jdk".
RECURSIVE FindRootDir(_)
FindRootDir(entries) ==
    IF entries = <<>> THEN <<>>
    ELSE IF Head(entries).dir /\ HasPrefix(Head(entries).name, <<"j","d","k">>)
         THEN Split(Head(entries).name, "/")[1]
         ELSE FindRootDir(Tail(entries))

\* filepath.Dir of a cleaned path with at least one separator.
RECURSIVE FilepathDir(_)
FilepathDir(s) ==
    IF s = <<>> THEN Dot
    ELSE IF IsSeparator(s[Len(s)]) THEN Clean(s)
    ELSE FilepathDir(SubSeq(s, 1, Len(s) - 1))

\* The paths that the extraction loop of ExtractZip creates for the first
\* n entries: the path of each entry, and the parent directory of a file.
ExtractedPaths(entries, destDir, n) ==
    UNION {LET filePath == FilepathJoin(destDir, entries[i].name) IN
           IF entries[i].dir THEN {filePath} ELSE {FilepathDir(filePath), filePath} :
              i \in 1..n}

\* installer.ExtractZip. failAt is the entry at which writing fails (0:
\* none fails; a directory entry cannot fail, its error is ignored).
\* The result: the returned path, the error and the paths created.
ExtractZip(zip, destDir, failAt) ==
    IF ~(zip.exists /\ zip.archive \in ArchiveIds /\ zip.len = MaxBytes)
    THEN [path |-> <<>>, err |-> <<"failed to open zip">>, created |-> {}]
    ELSE LET entries == Archives[zip.archive]
             rootDir == FindRootDir(entries)
         IN IF failAt \in DOMAIN entries /\ ~entries[failAt].dir
            THEN [path |-> <<>>, err |-> <<"failed to create file">>,
                  created |-> ExtractedPaths(entries, destDir, failAt - 1)]
            ELSE [path |-> IF rootDir # <<>> THEN FilepathJoin(destDir, rootDir) ELSE <<>>,
                  err |-> Nil,
                  created |-> ExtractedPaths(entries, destDir, Len(entries))]

\* What a directory holds: entries by their path relative to the directory
\* and the installation they belong to.
Entry(rel, gen) == [rel |-> rel, gen |-> gen]

Absent == [present |-> FALSE, files |-> {}]

Dir(files) == [present |-> TRUE, files |-> files]

\* An installation that a previous run left at the final install path.
OldTree == {Entry(<<"b","i","n">>, "old"), Entry(<<"b","i","n","\\","j","a","v","a",".","e","x","e">>, "old"), Entry(<<"r","e","l","e","a","s","e">>, "old")}

\* The entries of the staging area below root, relative to root.
Payload(created, root) ==
    {Entry(SubSeq(p, Len(root) + 2, Len(p)), "new") :
        p \in {q \in created : HasPrefix(q, root \o <<"\\">>)}}

\* The outcomes of tea.Program.Run in WithSpinner, seen from the caller:
\* "finished" (fn returned and sent spinnerFinishedMsg), "ctrlcLate" (ctrl+c
\* quit the program when fn had returned), "ctrlcEarly" (ctrl+c quit the
\* program while fn was still asleep or running) and "runError" (Run
\* returned an error).
SpinnerOutcomes == {"finished", "ctrlcLate", "ctrlcEarly", "runError"}

\* WithSpinner returns nil unless Run returned an error.
WithSpinner(ui) == IF ui = "runError" THEN <<"program error">> ELSE Nil

\* TRUE when the caller reads what fn stored in the captured variables.
FnResultVisible(ui) == ui \in {"finished", "ctrlcLate"}

\* A return of InstallJDK: the deferred os.RemoveAll(tempDir) runs when the
\* staging directory was created.
ReturnFromInstall(path, err) ==
    /\ ijPc' = "returned"
    /\ ijPath' = path
    /\ ijErr' = err
    /\ stagingExists' = FALSE
    /\ zipFile' = NoFile
    /\ extractFiles' = {}

\* InstallJDK lines 408-432: the installation base and the staging
\* directory. mkBaseOk, mkTempOk: the two os.MkdirAll calls succeed.
InstallBegin(version, isSystemWide, checksum, served, mkBaseOk, mkTempOk) ==
    /\ ijPc = "idle"
    /\ ijVersion' = version
    /\ ijSystemWide' = isSystemWide
    /\ ijChecksum' = checksum
    /\ ijServed' = served
    /\ ijFinalBefore' = finalDir
    /\ UNCHANGED <<bgExtract, ijTransfer, ijDownloaded, ijExtractedPath, finalDir, ijPhases>>
    /\ IF ~mkBaseOk
       THEN /\ ijPc' = "returned"
            /\ ijPath' = <<>>
            /\ ijErr' = <<"failed to create installation directory">>
            /\ UNCHANGED <<stagingExists, zipFile, extractFiles>>
       ELSE IF ~mkTempOk
       THEN /\ ijPc' = "returned"
            /\ ijPath' = <<>>
            /\ ijErr' = <<"failed to create temp directory">>
            /\ UNCHANGED <<stagingExists, zipFile, extractFiles>>
       ELSE /\ ijPc' = "download"
            /\ stagingExists' = TRUE
            /\ UNCHANGED <<zipFile, extractFiles, ijPath, ijErr>>

\* InstallJDK lines 434-439: the download.
InstallDownload(net, totalSize, sent) ==
    /\ ijPc = "download"
    /\ ijPhases' = ijPhases \cup {"download"}
    /\ UNCHANGED <<ijVersion, ijSystemWide, ijChecksum, ijServed,
                   bgExtract, ijExtractedPath, ijFinalBefore, finalDir>>
    /\ ijTransfer' = [net |-> net, totalSize |-> totalSize, sent |-> sent]
    /\ LET got == DownloadFile(net, ijServed, totalSize, sent) IN
       /\ ijDownloaded' = got.file
       /\ IF got.err # Nil
          THEN ReturnFromInstall(<<>>, Wrap("download failed", got.err))
          ELSE /\ ijPc' = "verify"
               /\ zipFile' = got.file
               /\ UNCHANGED <<stagingExists, extractFiles, ijPath, ijErr>>

\* InstallJDK lines 441-453: the checksum under a spinner.
InstallVerify(ui) ==
    /\ ijPc = "verify"
    /\ ijPhases' = ijPhases \cup {"verify"}
    /\ UNCHANGED <<ijVersion, ijSystemWide, ijChecksum, ijServed,
                   bgExtract, ijTransfer, ijDownloaded, ijExtractedPath, ijFinalBefore,
                   finalDir>>
    /\ LET spinnerErr == WithSpinner(ui)
           checksumErr == IF FnResultVisible(ui)
                          THEN VerifyChecksum(zipFile, ijChecksum)
                          ELSE Nil
       IN IF spinnerErr # Nil THEN ReturnFromInstall(<<>>, spinnerErr)
          ELSE IF checksumErr # Nil
          THEN ReturnFromInstall(<<>>, Wrap("checksum verification failed", checksumErr))
          ELSE /\ ijPc' = "extract"
               /\ UNCHANGED <<stagingExists, zipFile, extractFiles, ijPath, ijErr>>

\* InstallJDK lines 455-472: the extraction under a spinner. When the
\* spinner returns before fn has finished, ExtractZip is still running in
\* its goroutine.
InstallExtract(ui, failAt) ==
    /\ ijPc = "extract"
    /\ ijPhases' = ijPhases \cup {"extract"}
    /\ UNCHANGED <<ijVersion, ijSystemWide, ijChecksum, ijServed,
                   ijTransfer, ijDownloaded, ijFinalBefore, finalDir>>
    /\ LET spinnerErr == WithSpinner(ui)
           got == ExtractZip(zipFile, TempExtractDir, failAt)
           extractedPath == IF FnResultVisible(ui) THEN got.path ELSE <<>>
           extractErr == IF FnResultVisible(ui) THEN got.err ELSE Nil
       IN /\ bgExtract' = IF FnResultVisible(ui) THEN "none" ELSE "running"
          /\ ijExtractedPath' = extractedPath
          /\ IF spinnerErr # Nil THEN ReturnFromInstall(<<>>, spinnerErr)
             ELSE IF extractErr # Nil
             THEN ReturnFromInstall(<<>>, Wrap("extraction failed", extractErr))
             ELSE /\ ijPc' = "validate"
                  /\ extractFiles' =
                        IF FnResultVisible(ui) THEN extractFiles \cup got.created
                        ELSE extractFiles
                  /\ UNCHANGED <<stagingExists, zipFile, ijPath, ijErr>>

\* The goroutine of an abandoned spinner finishes ExtractZip: it creates
\* the entries of the archive below the staging directory, whether or not
\* InstallJDK has returned. failAt as in ExtractZip.
BackgroundExtract(failAt) ==
    /\ bgExtract = "running"
    /\ bgExtract' = "none"
    /\ LET got == ExtractZip(ijDownloaded, TempExtractDir, failAt) IN
       /\ extractFiles' = extractFiles \cup got.created
       /\ stagingExists' = (stagingExists \/ got.created # {})
    /\ UNCHANGED <<ijPc, ijVersion, ijSystemWide, ijChecksum, ijServed, zipFile,
                   ijTransfer, ijDownloaded, ijExtractedPath, ijFinalBefore, finalDir, ijErr, ijPath, ijPhases>>

\* The path that os.Stat is given at line 476, and whether it exists:
\* an empty extractedPath makes it relative to the working directory.
JavaExePath(extractedPath) ==
    IF extractedPath = <<>> THEN <<"b","i","n","\\","j","a","v","a",".","e","x","e">>
    ELSE FilepathJoin(extractedPath, <<"b","i","n","\\","j","a","v","a",".","e","x","e">>)

\* InstallJDK lines 474-478: the entry-point binary. cwdHasJava: the
\* working directory of the process holds bin\java.exe.
InstallValidate(cwdHasJava) ==
    /\ ijPc = "validate"
    /\ ijPhases' = ijPhases \cup {"validate"}
    /\ UNCHANGED <<ijVersion, ijSystemWide, ijChecksum, ijServed,
                   bgExtract, ijTransfer, ijDownloaded, ijExtractedPath, ijFinalBefore,
                   finalDir>>
    /\ LET found == IF ijExtractedPath = <<>> THEN cwdHasJava
                    ELSE JavaExePath(ijExtractedPath) \in extractFiles
       IN IF ~found
          THEN ReturnFromInstall(<<>>, <<"invalid JDK structure: bin\\java.exe not found">>)
          ELSE /\ ijPc' = "promote"
               /\ UNCHANGED <<stagingExists, zipFile, extractFiles, ijPath, ijErr>>

\* A promotion that goes on to the rename when the removal of the old
\* installation has failed, and moves the payload into what is left.
PromoteIntoLeftovers(dir, source, payload, statOk, removeOk, kept, renameOk) ==
    LET afterRemove == IF dir.present /\ statOk
                       THEN (IF removeOk THEN Absent ELSE Dir(kept))
                       ELSE dir
    IN IF renameOk /\ source # <<>>
       THEN [dir |-> Dir(afterRemove.files \cup payload), err |-> Nil]
       ELSE [dir |-> afterRemove, err |-> <<"failed to move JDK to final location">>]

\* InstallJDK lines 483-494 on the final install path: dir is what the
\* path holds, source the directory to move and payload what it holds.
\* statOk: os.Stat(finalPath) answers (without an error other than "does
\* not exist"); removeOk: os.RemoveAll succeeds, and kept is what it leaves
\* of the old installation when it fails; renameOk: the file system lets
\* os.Rename succeed. os.Rename fails on an empty source and on an existing
\* destination. The result: what the path holds then, and the error.
Promote(dir, source, payload, statOk, removeOk, kept, renameOk) ==
    IF dir.present /\ statOk /\ ~removeOk
    THEN [dir |-> Dir(kept), err |-> <<"failed to remove old installation">>]
    ELSE LET afterRemove == IF dir.present /\ statOk THEN Absent ELSE dir IN
         IF renameOk /\ source # <<>> /\ ~afterRemove.present
         THEN [dir |-> Dir(payload), err |-> Nil]
         ELSE [dir |-> afterRemove, err |-> <<"failed to move JDK to final location">>]

\* InstallJDK lines 480-497: the promotion.
InstallPromote(statOk, removeOk, kept, renameOk) ==
    /\ ijPc = "promote"
    /\ ijPhases' = ijPhases \cup {"promote"}
    /\ UNCHANGED <<ijVersion, ijSystemWide, ijChecksum, ijServed,
                   bgExtract, ijTransfer, ijDownloaded, ijExtractedPath, ijFinalBefore>>
    /\ LET got == Promote(finalDir, ijExtractedPath, Payload(extractFiles, ijExtractedPath),
                          statOk, removeOk, kept, renameOk)
       IN /\ finalDir' = got.dir
          /\ IF got.err # Nil THEN ReturnFromInstall(<<>>, got.err)
             ELSE ReturnFromInstall(FinalPath(ijSystemWide, ijVersion), Nil)

\* The whole tree of an archive below its root directory, as the final
\* install path holds it after a complete installation.
WholePayload(archive) ==
    LET entries == Archives[archive]
        root == FilepathJoin(TempExtractDir, FindRootDir(entries))
    IN Payload(ExtractedPaths(entries, TempExtractDir, Len(entries)), root)

\* C3: whenever the digest of the downloaded archive differs from the
\* expected digest, the verification makes InstallJDK return a failure and
\* extraction, validation and promotion never start.
C3_ChecksumGate ==
    ("verify" \in ijPhases /\ (ijDownloaded.exists /\ ~EqualFold(Sha256Hex(ijDownloaded), ijChecksum))) =>
        /\ ijPc = "returned"
        /\ ijErr # Nil
        /\ ijPhases \cap {"extract", "validate", "promote"} = {}

C6_IncompleteTransfer ==
    (ijTransfer.net = "copied" /\ ijTransfer.sent # ijTransfer.totalSize) =>
        /\ ijPc = "returned"
        /\ ijErr = <<"download failed", "incomplete download">>
        /\ ijPath = <<>>
        /\ ijPhases = {"download"}

C6_Witness ==
    /\ ijTransfer.net = "copied"
    /\ ijTransfer.sent = ijTransfer.totalSize - 1
    /\ ijPc = "returned"
    /\ ijErr # Nil

\* C11: InstallJDK starts the promotion only if bin\java.exe exists inside
\* the extracted root, and when it returns from the validation with an
\* error the final install path holds exactly what it held before.
C11_ValidationGate ==
    /\ "promote" \in ijPhases =>
          /\ ijExtractedPath # <<>>
          /\ JavaExePath(ijExtractedPath) \in extractFiles
    /\ (ijPc = "returned" /\ "validate" \in ijPhases /\ "promote" \notin ijPhases) =>
          /\ ijErr # Nil
          /\ finalDir = ijFinalBefore

\* C22 for the install pipeline: every failure return of InstallJDK carries
\* an error whose message names the phase that failed (the last phase that
\* was started; "setup" before the download), so that failures of two
\* different phases never carry the same kind of error.
C22_PhaseNamingErrors ==
    (ijPc = "returned" /\ ijErr # Nil) =>
        LET failing == IF "promote" \in ijPhases THEN "promote"
                       ELSE IF "validate" \in ijPhases THEN "validate"
                       ELSE IF "extract" \in ijPhases THEN "extract"
                       ELSE IF "verify" \in ijPhases THEN "verify"
                       ELSE IF "download" \in ijPhases THEN "download"
                       ELSE "setup"
            named == CASE ijErr[1] = "download failed" -> "download"
                       [] ijErr[1] = "checksum verification failed" -> "verify"
                       [] ijErr[1] = "extraction failed" -> "extract"
                       [] ijErr[1] = "invalid JDK structure: bin\\java.exe not found" -> "validate"
                       [] ijErr[1] \in {"failed to remove old installation",
                                        "failed to move JDK to final location"} -> "promote"
                       [] ijErr[1] \in {"failed to create installation directory",
                                        "failed to create temp directory"} -> "setup"
                       [] OTHER -> "none"
        IN named = failing

\* C27: ExtractZip returns destDir joined with the top-level component of
\* the first directory entry whose name starts with "jdk", and an empty
\* root when no entry matches; in that case InstallJDK validates the whole
\* extraction directory (the validation passes exactly when the extraction
\* directory holds bin\java.exe) and promotes it (a successful installation
\* leaves the content of the extraction directory at the final path).
C27_RootAndFallback ==
    ijServed \in ArchiveIds =>
        LET entries == Archives[ijServed]
            matches == {i \in DOMAIN entries :
                           entries[i].dir /\ HasPrefix(entries[i].name, <<"j","d","k">>)}
            Top(name) == IF \E k \in DOMAIN name : name[k] = "/"
                         THEN SubSeq(name, 1, (CHOOSE k \in DOMAIN name :
                                 name[k] = "/" /\ \A j \in 1..(k - 1) : name[j] # "/") - 1)
                         ELSE name
            whole == ExtractedPaths(entries, TempExtractDir, Len(entries))
            valid == FilepathJoin(TempExtractDir, <<"b","i","n","\\","j","a","v","a",".","e","x","e">>) \in whole
        IN /\ (ijPc = "extract" /\ zipFile.len = MaxBytes) =>
                 LET got == ExtractZip(zipFile, TempExtractDir, 0) IN
                 /\ got.err = Nil
                 /\ got.path = IF matches = {} THEN <<>>
                               ELSE FilepathJoin(TempExtractDir,
                                       Top(entries[CHOOSE i \in matches : \A j \in matches : i <= j].name))
           /\ (matches = {} /\ "validate" \in ijPhases) =>
                 ((ijPc = "promote" \/ "promote" \in ijPhases) <=> valid)
           /\ (matches = {} /\ ijPc = "returned" /\ "promote" \in ijPhases /\ ijErr = Nil) =>
                 finalDir = Dir(Payload(whole, TempExtractDir))

\* C28: whenever InstallJDK has returned after the staging directory was
\* created, on success or on failure in any phase, the staging directory
\* with the downloaded archive and the extraction area does not exist, and
\* the returned path does not lie in it.
C28_StagingDiscarded ==
    (ijPc = "returned" /\ ijPhases # {}) =>
        /\ ~stagingExists
        /\ zipFile = NoFile
        /\ extractFiles = {}
        /\ ~HasPrefix(ijPath, FilepathDir(TempExtractDir))

\* C29: every file or directory that ExtractZip creates lies inside
\* destDir (the extraction directory of the staging directory), for every
\* archive, also one whose entry names contain ".." or are absolute.
C29_ExtractionInsideDestDir ==
    \A p \in extractFiles :
        \/ p = TempExtractDir
        \/ HasPrefix(p, TempExtractDir \o <<"\\">>)

(***************************************************************************)
(* The inventory of the configuration (config.Config) and the install      *)
(* flows that write it (installer.RunSingleInstall, RunMultiInstall).      *)
(***************************************************************************)
ScopeUser == <<"u","s","e","r">>

ScopeSystem == <<"s","y","s","t","e","m">>

ScopePool == {ScopeUser, ScopeSystem}

\* config.InstalledJDK; installedAt is the reading of the clock.
InstalledJDK(version, path, installedAt, scope) ==
    [version |-> version, path |-> path, distributor |-> DistributorName,
     installedAt |-> installedAt, scope |-> scope]

\* The index of the first record whose path equals path under EqualFold,
\* 0 when there is none: the loops of AddInstalledJDK and RemoveInstalledJDK.
FirstByPath(jdks, path) ==
    LET hits == {i \in DOMAIN jdks : EqualFold(jdks[i].path, path)} IN
    IF hits = {} THEN 0 ELSE CHOOSE i \in hits : \A j \in hits : i <= j

\* An AddInstalledJDK that compares the paths exactly.
AddInstalledJDKExact(jdks, jdk) ==
    LET new == [jdk EXCEPT !.path = Clean(jdk.path)]
        hits == {i \in DOMAIN jdks : jdks[i].path = new.path}
    IN IF hits = {} THEN Append(jdks, new)
       ELSE [jdks EXCEPT ![CHOOSE i \in hits : \A j \in hits : i <= j] = new]

\* Config.AddInstalledJDK
AddInstalledJDK(jdks, jdk) ==
    LET new == [jdk EXCEPT !.path = Clean(jdk.path)]
        i == FirstByPath(jdks, new.path)
    IN IF i = 0 THEN Append(jdks, new) ELSE [jdks EXCEPT ![i] = new]

\* Config.RemoveInstalledJDK
RemoveInstalledJDK(jdks, path) ==
    LET i == FirstByPath(jdks, Clean(path)) IN
    IF i = 0 THEN jdks ELSE SubSeq(jdks, 1, i - 1) \o SubSeq(jdks, i + 1, Len(jdks))

\* Config.AddCustomPath
AddCustomPath(paths, path) ==
    LET p == Clean(TrimSpace(path)) IN
    IF p = <<>> \/ p = Dot THEN paths
    ELSE IF \E i \in DOMAIN paths : EqualFold(paths[i], p) THEN paths
    ELSE Append(paths, p)

\* Config.RemoveCustomPath
RemoveCustomPath(paths, path) ==
    LET hits == {i \in DOMAIN paths : EqualFold(paths[i], Clean(path))} IN
    IF hits = {} THEN paths
    ELSE LET i == CHOOSE k \in hits : \A j \in hits : k <= j IN
         SubSeq(paths, 1, i - 1) \o SubSeq(paths, i + 1, Len(paths))

\* Config.HasCustomPath
HasCustomPath(paths, path) ==
    \E i \in DOMAIN paths : EqualFold(paths[i], Clean(path))

\* The paths given to the methods of Config: install paths as InstallJDK
\* returns them, and the same directory written in other ways.
UserJdk21 == FinalPath(FALSE, Version21)


ConfigPathPool ==
    {UserJdk21, ToLower(UserJdk21), UserJdk21 \o <<"\\">>, <<"C",":","/","U","/",".","j","v","/","j","d","k","-","2","1">>, FinalPath(FALSE, Version17)}

\* A call of Config.AddInstalledJDK on the configuration in memory.
CallAddInstalledJDK(version, path, scope) ==
    /\ cfgClock < MaxOps
    /\ cfgClock' = cfgClock + 1
    /\ LET jdk == InstalledJDK(version, path, cfgClock + 1, scope) IN
       /\ installedJDKs' = AddInstalledJDK(installedJDKs, jdk)
       /\ cfgLast' = [op |-> "add", jdk |-> jdk]
    /\ UNCHANGED <<customPaths, savedJDKs, pipelineOk>>

\* A call of Config.RemoveInstalledJDK on the configuration in memory.
CallRemoveInstalledJDK(path) ==
    /\ cfgClock < MaxOps
    /\ cfgClock' = cfgClock + 1
    /\ installedJDKs' = RemoveInstalledJDK(installedJDKs, path)
    /\ cfgLast' = [op |-> "remove", path |-> path]
    /\ UNCHANGED <<customPaths, savedJDKs, pipelineOk>>

\* C8: the inventory never holds two records for one install path, and an
\* AddInstalledJDK for a path that is already recorded replaces that record
\* where it is: same position, same length, the other records untouched.
C8_OneRecordPerPath ==
    [][ /\ \A i, j \in DOMAIN installedJDKs' :
              i # j => ~EqualFold(Clean(installedJDKs'[i].path), Clean(installedJDKs'[j].path))
        /\ cfgLast'.op = "add" =>
              \A i \in DOMAIN installedJDKs :
                  EqualFold(Clean(installedJDKs[i].path), Clean(cfgLast'.jdk.path)) =>
                      /\ Len(installedJDKs') = Len(installedJDKs)
                      /\ installedJDKs'[i] =
                            [cfgLast'.jdk EXCEPT !.path = Clean(cfgLast'.jdk.path)]
                      /\ \A j \in DOMAIN installedJDKs :
                            j # i => installedJDKs'[j] = installedJDKs[j]
      ]_vars

\* A version installed again at a recorded path, written in another case:
\* one record, replaced by the later one.
C8_Witness ==
    /\ cfgLast.op = "add"
    /\ cfgClock = 2
    /\ Len(installedJDKs) = 1
    /\ installedJDKs[1].installedAt = 2
    /\ cfgLast.jdk.path = ToLower(UserJdk21)

\* env.SetJavaHome as one call on the store (home, path). fail is the
\* registry call that fails: "none", "openKey", "setJavaHome" or "setPath".
\* The result: the store after the call, the error and whether the
\* environment-changed broadcast was sent.
SetJavaHomeCall(home, path, javaPath, fail) ==
    IF fail = "openKey"
    THEN [home |-> home, path |-> path, sent |-> FALSE,
          err |-> <<"failed to open registry key (run as administrator)">>]
    ELSE IF ~path.present
    THEN [home |-> home, path |-> path, sent |-> FALSE, err |-> <<"failed to read PATH">>]
    ELSE IF fail = "setJavaHome"
    THEN [home |-> home, path |-> path, sent |-> FALSE, err |-> <<"failed to set JAVA_HOME">>]
    ELSE IF fail = "setPath"
    THEN [home |-> Value(Clean(javaPath)), path |-> path, sent |-> FALSE,
          err |-> <<"failed to update PATH">>]
    ELSE [home |-> Value(Clean(javaPath)),
          path |-> Value(updatePath(GetStringValue(path), GetStringValue(home), Clean(javaPath))),
          sent |-> TRUE, err |-> Nil]

\* Installer.ConfigureEnvironment: SetJavaHome is called when the process
\* has no JAVA_HOME in its environment and runs as administrator.
ConfigureEnvironment(jdkPath, envHasJavaHome, isAdmin, fail) ==
    IF envHasJavaHome \/ ~isAdmin
    THEN [home |-> regHome, path |-> regPath, sent |-> FALSE, err |-> Nil]
    ELSE SetJavaHomeCall(regHome, regPath, jdkPath, fail)

\* The loop of finalizeInstallation from index idx on: the configuration
\* (inventory and custom paths) after it.
RECURSIVE FinalizeFrom(_, _, _, _, _, _)
FinalizeFrom(cfg, paths, versions, scope, now, idx) ==
    IF idx > Len(paths) THEN cfg
    ELSE LET custom == IF EqualFold(scope, ScopeUser)
                       THEN AddCustomPath(cfg.custom, paths[idx])
                       ELSE cfg.custom
             jdks == AddInstalledJDK(cfg.jdks,
                        InstalledJDK(versions[idx], paths[idx], now, scope))
         IN FinalizeFrom([jdks |-> jdks, custom |-> custom],
                         paths, versions, scope, now, idx + 1)

\* Installer.InstallVersion as the install flows see it: the path that
\* InstallJDK returns for the version, or an error (the empty path).
InstallVersion(version, scope, isAdmin, ok) ==
    IF ok THEN FinalPath(scope = ScopeSystem /\ isAdmin, version) ELSE <<>>

\* The loop of RunMultiInstall: installedPaths after the versions from idx on.
RECURSIVE InstalledPaths(_, _, _, _, _)
InstalledPaths(versions, scope, isAdmin, oks, idx) ==
    IF idx > Len(versions) THEN <<>>
    ELSE LET installedPath == InstallVersion(versions[idx], scope, isAdmin, oks[idx]) IN
         (IF oks[idx] THEN <<installedPath>> ELSE <<>>)
            \o InstalledPaths(versions, scope, isAdmin, oks, idx + 1)

\* The (version, path) pairs of the installs that succeeded.
Succeeded(versions, scope, isAdmin, oks) ==
    {[version |-> versions[i], path |-> InstallVersion(versions[i], scope, isAdmin, TRUE)] :
        i \in {j \in DOMAIN versions : oks[j]}}

\* The number of commands in a run of the install flows.
MaxRuns == 2

\* What the user can choose in SelectInstallScope.
ScopeChoices(isAdmin) == IF isAdmin THEN ScopePool ELSE {ScopeUser}

\* The end of an install command: finalizeInstallation on the configuration
\* that NewInstaller loaded (the inventory and the custom paths on disk),
\* Config.Save (saveOk: it succeeds) and ConfigureEnvironment for the first
\* path. installedJDKs is the inventory in memory when the command ends.
FinalizeInstallation(paths, versions, scope, isAdmin, saveOk, envHasJavaHome, fail) ==
    LET cfg == FinalizeFrom([jdks |-> savedJDKs, custom |-> customPaths],
                            paths, versions, scope, cfgClock + 1, 1)
        reg == IF paths # <<>>
               THEN ConfigureEnvironment(paths[1], envHasJavaHome, isAdmin, fail)
               ELSE [home |-> regHome, path |-> regPath, sent |-> FALSE, err |-> Nil]
    IN /\ installedJDKs' = cfg.jdks
       /\ customPaths' = IF saveOk THEN cfg.custom ELSE customPaths
       /\ savedJDKs' = IF saveOk THEN cfg.jdks ELSE savedJDKs
       /\ regHome' = reg.home
       /\ regPath' = reg.path
       /\ broadcasts' = IF reg.sent THEN broadcasts + 1 ELSE broadcasts

\* Installer.RunSingleInstall for the chosen version and scope; ok: the
\* install succeeds.
RunSingleInstall(version, scope, isAdmin, ok, saveOk, envHasJavaHome, fail) ==
    /\ cfgClock < MaxRuns
    /\ cfgClock' = cfgClock + 1
    /\ scope \in ScopeChoices(isAdmin)
    /\ cfgLast' = [op |-> "single"]
    /\ pipelineOk' = pipelineOk \cup Succeeded(<<version>>, scope, isAdmin, <<ok>>)
    /\ UNCHANGED <<sjhPc, sjhJavaPath, sjhCurrentPath, sjhOldJavaHome, sjhResult, sjhCalls>>
    /\ IF ~ok
       THEN UNCHANGED <<installedJDKs, customPaths, savedJDKs, regHome, regPath, broadcasts>>
       ELSE FinalizeInstallation(<<InstallVersion(version, scope, isAdmin, ok)>>, <<version>>,
                                 scope, isAdmin, saveOk, envHasJavaHome, fail)

\* Installer.RunMultiInstall for the chosen versions and scope; oks[i]: the
\* install of versions[i] succeeds.
RunMultiInstall(versions, scope, isAdmin, oks, saveOk, envHasJavaHome, fail) ==
    /\ cfgClock < MaxRuns
    /\ cfgClock' = cfgClock + 1
    /\ scope \in ScopeChoices(isAdmin)
    /\ cfgLast' = [op |-> "multi"]
    /\ pipelineOk' = pipelineOk \cup Succeeded(versions, scope, isAdmin, oks)
    /\ UNCHANGED <<sjhPc, sjhJavaPath, sjhCurrentPath, sjhOldJavaHome, sjhResult, sjhCalls>>
    /\ IF versions = <<>>
       THEN UNCHANGED <<installedJDKs, customPaths, savedJDKs, regHome, regPath, broadcasts>>
       ELSE FinalizeInstallation(InstalledPaths(versions, scope, isAdmin, oks, 1), versions,
                                 scope, isAdmin, saveOk, envHasJavaHome, fail)

\* handleRemove of the command line for a path of the custom paths that the
\* user confirms; the configuration is saved (a failing save ends the
\* process with the disk unchanged).
HandleRemove(path, saveOk) ==
    /\ cfgClock < MaxRuns
    /\ cfgClock' = cfgClock + 1
    /\ HasCustomPath(customPaths, path)
    /\ cfgLast' = [op |-> "handleRemove"]
    /\ customPaths' = IF saveOk THEN RemoveCustomPath(customPaths, path) ELSE customPaths
    /\ installedJDKs' = RemoveInstalledJDK(savedJDKs, path)
    /\ savedJDKs' = IF saveOk THEN RemoveInstalledJDK(savedJDKs, path) ELSE savedJDKs
    /\ UNCHANGED <<pipelineOk, envVars, menuVars, chkVars, fetchVars>>

\* C7: every record of the inventory carries the version and the path of an
\* install that succeeded; no record is written for a failed install.
C7_OnlySuccessfulInstalls ==
    \A i \in DOMAIN installedJDKs :
        [version |-> installedJDKs[i].version, path |-> installedJDKs[i].path] \in pipelineOk

(***************************************************************************)
(* Version discovery: AdoptiumDistributor.GetAvailableVersions and the two *)
(* menus built from it, Installer.ShowVersionMenu of the single-install    *)
(* flow and Installer.SelectMultipleVersions of the batch-install flow.    *)
(***************************************************************************)
\* getFallbackVersions: the hardcoded list.
getFallbackVersions ==
    << [Version |-> <<"2","5">>, IsLTS |-> TRUE],
       [Version |-> <<"2","4">>, IsLTS |-> FALSE],
       [Version |-> <<"2","3">>, IsLTS |-> FALSE],
       [Version |-> <<"2","2">>, IsLTS |-> FALSE],
       [Version |-> <<"2","1">>, IsLTS |-> TRUE],
       [Version |-> <<"2","0">>, IsLTS |-> FALSE],
       [Version |-> <<"1","9">>, IsLTS |-> FALSE],
       [Version |-> <<"1","8">>, IsLTS |-> FALSE],
       [Version |-> <<"1","7">>, IsLTS |-> TRUE],
       [Version |-> <<"1","6">>, IsLTS |-> FALSE],
       [Version |-> <<"1","1">>, IsLTS |-> TRUE],
       [Version |-> <<"8">>, IsLTS |-> TRUE] >>

\* GetAvailableVersions, as the pair <<releases, err>>. fetch is what the
\* request did: "requestError" (http.Get failed), "badStatus" (a status
\* other than 200), "readError" (io.ReadAll failed), "parseError"
\* (json.Unmarshal failed) or "ok", and then resp is the parsed body. The
\* versions are formatted with %d and sorted in descending order of the
\* formatted strings.
GetAvailableVersions(fetch, resp) ==
    LET Digits == <<"0","1","2","3","4","5","6","7","8","9">>
        RECURSIVE Sprintf(_)
        Sprintf(v) == IF v < 10 THEN <<Digits[v + 1]>>
                      ELSE Sprintf(v \div 10) \o <<Digits[(v % 10) + 1]>>
        Byte(c) == CHOOSE k \in DOMAIN Digits : Digits[k] = c
        RECURSIVE Greater(_, _)
        Greater(a, b) ==
            IF a = <<>> THEN FALSE
            ELSE IF b = <<>> THEN TRUE
            ELSE IF Head(a) = Head(b) THEN Greater(Tail(a), Tail(b))
            ELSE Byte(Head(a)) > Byte(Head(b))
        ltsMap == {resp.available_lts_releases[k] : k \in DOMAIN resp.available_lts_releases}
        releases == [k \in DOMAIN resp.available_releases |->
                        [Version |-> Sprintf(resp.available_releases[k]),
                         IsLTS |-> resp.available_releases[k] \in ltsMap]]
        RECURSIVE Sort(_)
        Sort(rs) ==
            IF rs = <<>> THEN <<>>
            ELSE LET m == CHOOSE i \in DOMAIN rs :
                              \A j \in DOMAIN rs : ~Greater(rs[j].Version, rs[i].Version)
                 IN <<rs[m]>> \o Sort(SubSeq(rs, 1, m - 1) \o SubSeq(rs, m + 1, Len(rs)))
    IN CASE fetch = "requestError" ->
              <<getFallbackVersions,
                Wrap("API request failed, using fallback versions", <<"request error">>)>>
         [] fetch = "badStatus" ->
              <<getFallbackVersions, <<"API returned status, using fallback versions">>>>
         [] fetch = "readError" ->
              <<getFallbackVersions,
                Wrap("failed to read response, using fallback versions", <<"read error">>)>>
         [] fetch = "parseError" ->
              <<getFallbackVersions,
                Wrap("failed to parse response, using fallback versions", <<"syntax error">>)>>
         [] OTHER -> <<Sort(releases), Nil>>

\* What the caller of WithSpinner reads from the captured variables
\* releases and fetchErr: what fn stored, or the zero values when the
\* spinner returned before fn had stored them.
FetchedBy(fetch, resp, ui) ==
    IF FnResultVisible(ui) THEN GetAvailableVersions(fetch, resp) ELSE <<<<>>, Nil>>

\* ShowVersionMenu, called once in a run of the install command. pick is
\* what the select form returns: 0 for an error of the form, or the number
\* of the chosen option.
ShowVersionMenu(fetch, resp, ui, pick) ==
    LET spinnerErr == WithSpinner(ui)
        got == FetchedBy(fetch, resp, ui)
        releases == got[1]
        fetchErr == got[2]
        ltsOptions == SelectSeq(releases, LAMBDA r : r.IsLTS)
        featureOptions == SelectSeq(releases, LAMBDA r : ~r.IsLTS)
        allOptions == [k \in DOMAIN releases |-> (ltsOptions \o featureOptions)[k].Version]
    IN /\ menuCall.flow = "none"
       /\ menuCall' = [flow |-> "single", fetch |-> fetch, ui |-> ui]
       /\ IF spinnerErr # Nil
          THEN /\ menuErr' = spinnerErr
               /\ menuShown' = FALSE
               /\ menuOptions' = <<>>
               /\ menuOutput' = <<>>
               /\ menuSelected' = <<>>
          ELSE /\ menuOutput' = IF fetchErr # Nil THEN <<Wrap("Warning", fetchErr)>> ELSE <<>>
               /\ menuShown' = TRUE
               /\ menuOptions' = allOptions
               /\ pick \in 0..Len(allOptions)
               /\ menuErr' = IF pick = 0 THEN <<"user aborted">> ELSE Nil
               /\ menuSelected' = IF pick = 0 THEN <<>> ELSE <<allOptions[pick]>>

\* SelectMultipleVersions, called once in a run of the install command.
\* formOk and picks are what the multi-select form returns: an error, or
\* the numbers of the chosen options.
SelectMultipleVersions(fetch, resp, ui, formOk, picks) ==
    LET spinnerErr == WithSpinner(ui)
        got == FetchedBy(fetch, resp, ui)
        releases == got[1]
        fetchErr == got[2]
        options == [k \in DOMAIN releases |-> releases[k].Version]
        chosen == SelectSeq([k \in DOMAIN options |-> k], LAMBDA k : k \in picks)
    IN /\ menuCall.flow = "none"
       /\ menuCall' = [flow |-> "batch", fetch |-> fetch, ui |-> ui]
       /\ menuOutput' = <<>>
       /\ IF spinnerErr # Nil \/ fetchErr # Nil
          THEN /\ menuErr' = IF spinnerErr # Nil THEN spinnerErr ELSE fetchErr
               /\ menuShown' = FALSE
               /\ menuOptions' = <<>>
               /\ menuSelected' = <<>>
          ELSE /\ menuShown' = TRUE
               /\ menuOptions' = options
               /\ picks \subseteq DOMAIN options
               /\ menuErr' = IF formOk THEN Nil ELSE <<"user aborted">>
               /\ menuSelected' = IF formOk THEN [k \in DOMAIN chosen |-> options[chosen[k]]]
                                  ELSE <<>>

\* C19: whenever the fetch of the version list fails (request error, status
\* other than 200, read error, parse error) and the spinner has ended with
\* the end of the fetch, the menu of the single-install flow and the menu of
\* the batch-install flow alike are shown, and they offer exactly the
\* versions of the hardcoded fallback list, each once.
C19_FallbackInBothFlows ==
    (menuCall.flow # "none" /\ menuCall.fetch # "ok" /\ menuCall.ui = "finished") =>
        /\ menuShown
        /\ Len(menuOptions) = Len(getFallbackVersions)
        /\ \A k \in DOMAIN getFallbackVersions :
              \E i \in DOMAIN menuOptions : menuOptions[i] = getFallbackVersions[k].Version

(***************************************************************************)
(* updater.PerformUpdate and the update command                            *)
(***************************************************************************)
\* os.Executable() of the running tool, and backup := exe + ".backup".
ExePath == <<"C",":","\\","j","v","\\","j","v",".","e","x","e">>

BackupPath == ExePath \o <<".","b","a","c","k","u","p">>

\* A file of the file system: absent, or present with its bytes.
NoSuchFile == [present |-> FALSE, data |-> <<>>]

FileWith(data) == [present |-> TRUE, data |-> data]

\* The text of an error of the operating system.
AccessDenied == <<"A","c","c","e","s","s"," ","i","s"," ","d","e","n","i","e","d",".">>

\* The Error() text of os.PathError.
PathError(op, path, err) == op \o <<" ">> \o path \o <<":"," ">> \o err

\* copyFile with a reported success for a short write.
copyFileTruncating(fs, src, dst, readOk, openOk, written) ==
    IF ~readOk \/ ~fs[src].present
    THEN [fs |-> fs, err |-> PathError(<<"o","p","e","n">>, src, AccessDenied)]
    ELSE IF ~openOk
    THEN [fs |-> fs, err |-> PathError(<<"o","p","e","n">>, dst, AccessDenied)]
    ELSE [fs |-> [fs EXCEPT ![dst] = FileWith(SubSeq(fs[src].data, 1, written))],
          err |-> Nil]

\* copyFile: os.ReadFile(src), then os.WriteFile(dst, data). readOk: the
\* read succeeds; openOk: dst can be created or truncated; written: the
\* number of bytes that reach dst.
copyFile(fs, src, dst, readOk, openOk, written) ==
    IF ~readOk \/ ~fs[src].present
    THEN [fs |-> fs, err |-> PathError(<<"o","p","e","n">>, src, AccessDenied)]
    ELSE IF ~openOk
    THEN [fs |-> fs, err |-> PathError(<<"o","p","e","n">>, dst, AccessDenied)]
    ELSE IF written < Len(fs[src].data)
    THEN [fs |-> [fs EXCEPT ![dst] = FileWith(SubSeq(fs[src].data, 1, written))],
          err |-> PathError(<<"w","r","i","t","e">>, dst, AccessDenied)]
    ELSE [fs |-> [fs EXCEPT ![dst] = FileWith(fs[src].data)], err |-> Nil]

\* os.Rename(old, new): the file moves, replacing what is at new. Its error
\* is an os.LinkError: "rename <old> <new>: <error>".
Rename(fs, old, new, ok) ==
    IF ~ok \/ ~fs[old].present
    THEN [fs |-> fs, err |-> <<"r","e","n","a","m","e">> \o <<" ">> \o old \o <<" ">> \o new \o <<":"," ">> \o AccessDenied]
    ELSE [fs |-> [fs EXCEPT ![new] = fs[old], ![old] = NoSuchFile], err |-> Nil]

\* selfupdate.UpdateTo(ctx, assetURL, assetName, exe). A call that fails
\* returns err and leaves at the executable's path the file as it was
\* ("untouched") or nothing ("movedAway": the executable was moved away and
\* the new one did not take its place).
UpdateTo(fs, exe, asset, outcome, err) ==
    IF outcome = "replaced" THEN [fs |-> [fs EXCEPT ![exe] = FileWith(asset)], err |-> Nil]
    ELSE IF outcome = "movedAway" THEN [fs |-> [fs EXCEPT ![exe] = NoSuchFile], err |-> err]
    ELSE [fs |-> fs, err |-> err]

\* The formats of the errors of PerformUpdate (fmt.Errorf).
ExecutablePathError(err) == <<"f","a","i","l","e","d"," ","t","o"," ","d","e","t","e","r","m","i","n","e"," ","e","x","e","c","u","t","a","b","l","e"," ","p","a","t","h",":"," ">> \o err

BackupError(err) == <<"f","a","i","l","e","d"," ","t","o"," ","c","r","e","a","t","e"," ","b","a","c","k","u","p",":"," ">> \o err

RolledBackError(err) == <<"u","p","d","a","t","e"," ","f","a","i","l","e","d"," ","(","r","o","l","l","e","d"," ","b","a","c","k",")",":"," ">> \o err

\* The unrecoverable error without the rollback error.
UnrecoverableErrorUpdateOnly(err, rollbackErr) ==
    <<"u","p","d","a","t","e"," ","f","a","i","l","e","d"," ","a","n","d"," ","r","o","l","l","b","a","c","k"," ","f","a","i","l","e","d",":"," ","u","p","d","a","t","e"," ","e","r","r","o","r",":"," ">> \o err

UnrecoverableError(err, rollbackErr) ==
    <<"u","p","d","a","t","e"," ","f","a","i","l","e","d"," ","a","n","d"," ","r","o","l","l","b","a","c","k"," ","f","a","i","l","e","d",":"," ","u","p","d","a","t","e"," ","e","r","r","o","r",":"," ">> \o err
        \o <<","," ","r","o","l","l","b","a","c","k"," ","e","r","r","o","r",":"," ">> \o rollbackErr

\* PerformUpdate returns err to handleUpdate, which prints an error after
\* "Update failed: ".
ReturnFromUpdate(err) ==
    /\ updPc' = "returned"
    /\ updErr' = err
    /\ updShown' = IF err = Nil THEN <<>>
                    ELSE <<"U","p","d","a","t","e"," ","f","a","i","l","e","d",":"," ">> \o err

\* handleUpdate up to the call of PerformUpdate: a release with the asset
\* was found and the user chose to update.
HandleUpdate(asset) ==
    /\ updPc = "exited"
    /\ updRuns < MaxUpdates
    /\ updFiles[ExePath].present
    /\ updRuns' = updRuns + 1
    /\ updPc' = "backup"
    /\ updAsset' = asset
    /\ updOriginal' = updFiles[ExePath].data
    /\ updBackup' = "none"
    /\ updReplace' = "none"
    /\ updRollback' = "none"
    /\ updAfterReplace' = NoSuchFile
    /\ updUpdateErr' = Nil
    /\ updRollbackErr' = Nil
    /\ updErr' = Nil
    /\ updShown' = <<>>
    /\ cleanupPending' = FALSE
    /\ UNCHANGED updFiles

\* PerformUpdate, its version that goes on to the replacement whatever
\* copyFile returned.
PerformUpdateBackupIgnored(exeOk, readOk, openOk, written) ==
    /\ updPc = "backup"
    /\ IF ~exeOk
       THEN /\ ReturnFromUpdate(ExecutablePathError(AccessDenied))
            /\ UNCHANGED <<updFiles, updBackup>>
       ELSE LET copy == copyFile(updFiles, ExePath, BackupPath, readOk, openOk, written) IN
            /\ updFiles' = copy.fs
            /\ updBackup' = IF copy.err # Nil THEN "failed" ELSE "ok"
            /\ updPc' = "replace"
            /\ UNCHANGED <<updErr, updShown>>
    /\ UNCHANGED <<updAsset, updOriginal, updReplace, updRollback, updAfterReplace,
                   updUpdateErr, updRollbackErr, cleanupPending, updRuns>>

\* PerformUpdate up to the backup: os.Executable and copyFile(exe, backup).
PerformUpdateBackup(exeOk, readOk, openOk, written) ==
    /\ updPc = "backup"
    /\ IF ~exeOk
       THEN /\ ReturnFromUpdate(ExecutablePathError(AccessDenied))
            /\ UNCHANGED <<updFiles, updBackup>>
       ELSE LET copy == copyFile(updFiles, ExePath, BackupPath, readOk, openOk, written) IN
            /\ updFiles' = copy.fs
            /\ IF copy.err # Nil
               THEN /\ updBackup' = "failed"
                    /\ ReturnFromUpdate(BackupError(copy.err))
               ELSE /\ updBackup' = "ok"
                    /\ updPc' = "replace"
                    /\ UNCHANGED <<updErr, updShown>>
    /\ UNCHANGED <<updAsset, updOriginal, updReplace, updRollback, updAfterReplace,
                   updUpdateErr, updRollbackErr, cleanupPending, updRuns>>

\* PerformUpdate: selfupdate.UpdateTo; on success the removal of the backup
\* is scheduled and nil is returned.
PerformUpdateReplace(outcome, err) ==
    /\ updPc = "replace"
    /\ LET update == UpdateTo(updFiles, ExePath, updAsset, outcome, err) IN
       /\ updFiles' = update.fs
       /\ updAfterReplace' = update.fs[ExePath]
       /\ updUpdateErr' = update.err
       /\ IF update.err # Nil
          THEN /\ updReplace' = "failed"
               /\ updPc' = "rollback"
               /\ UNCHANGED <<updErr, updShown, cleanupPending>>
          ELSE /\ updReplace' = "ok"
               /\ cleanupPending' = TRUE
               /\ ReturnFromUpdate(Nil)
    /\ UNCHANGED <<updAsset, updOriginal, updBackup, updRollback, updRollbackErr, updRuns>>

\* PerformUpdate after a failed replacement: os.Rename(backup, exe).
PerformUpdateRollback(renameOk) ==
    /\ updPc = "rollback"
    /\ LET rollback == Rename(updFiles, BackupPath, ExePath, renameOk) IN
       /\ updFiles' = rollback.fs
       /\ updRollbackErr' = rollback.err
       /\ IF rollback.err # Nil
          THEN /\ updRollback' = "failed"
               /\ ReturnFromUpdate(UnrecoverableError(updUpdateErr, rollback.err))
          ELSE /\ updRollback' = "ok"
               /\ ReturnFromUpdate(RolledBackError(updUpdateErr))
    /\ UNCHANGED <<updAsset, updOriginal, updBackup, updReplace, updAfterReplace,
                   updUpdateErr, cleanupPending, updRuns>>

\* The goroutine of PerformUpdate: after the delay, os.Remove(backup).
RemoveBackupLater ==
    /\ updPc = "returned"
    /\ cleanupPending
    /\ cleanupPending' = FALSE
    /\ updFiles' = [updFiles EXCEPT ![BackupPath] = NoSuchFile]
    /\ UNCHANGED <<updPc, updAsset, updOriginal, updBackup, updReplace, updRollback,
                   updAfterReplace, updUpdateErr, updRollbackErr, updErr, updShown, updRuns>>

\* handleUpdate returns (or calls os.Exit) and the process ends; a pending
\* removal of the backup is lost.
ProcessExit ==
    /\ updPc = "returned"
    /\ updPc' = "exited"
    /\ cleanupPending' = FALSE
    /\ UNCHANGED <<updFiles, updAsset, updOriginal, updBackup, updReplace, updRollback,
                   updAfterReplace, updUpdateErr, updRollbackErr, updErr, updShown, updRuns>>

PerformUpdateReturned == updPc \in {"returned", "exited"}

\* C4 as stated: whenever the backup copy succeeded and the replacement
\* failed, the executable's path holds the pre-update bytes once
\* PerformUpdate has returned.
C4_AlwaysRestored ==
    (updBackup = "ok" /\ updReplace = "failed" /\ PerformUpdateReturned) =>
        updFiles[ExePath] = FileWith(updOriginal)

\* C4, amended: whenever the backup copy succeeded, the replacement failed
\* and the restore of the backup succeeded, PerformUpdate returns the
\* "rolled back" error and the executable's path holds the pre-update bytes.
C4_RestoredWhenRolledBack ==
    (updBackup = "ok" /\ updReplace = "failed" /\ updRollback = "ok" /\ PerformUpdateReturned) =>
        /\ updFiles[ExePath] = FileWith(updOriginal)
        /\ updErr = RolledBackError(updUpdateErr)

\* The replacement moved the executable away and the rollback put the
\* pre-update bytes back.
C4_Witness ==
    /\ updBackup = "ok"
    /\ updReplace = "failed"
    /\ updAfterReplace = NoSuchFile
    /\ updRollback = "ok"
    /\ updPc = "returned"
    /\ updFiles[ExePath] = FileWith(updOriginal)

\* C9: if the copy of the executable to the backup path fails, PerformUpdate
\* returns an error, the replacement step is never invoked, and the file at
\* the executable's path is unchanged.
C9_BackupBeforeReplacement ==
    updBackup = "failed" =>
        /\ PerformUpdateReturned
        /\ updErr # Nil
        /\ HasPrefix(updErr, BackupError(Nil))
        /\ updReplace = "none"
        /\ updFiles[ExePath] = FileWith(updOriginal)

\* The backup failed after a short write and PerformUpdate has returned.
C9_Witness ==
    /\ updBackup = "failed"
    /\ updPc = "returned"
    /\ updFiles[BackupPath].present
    /\ updFiles[BackupPath].data # updOriginal

\* C10: when the replacement fails and the restore of the backup fails too,
\* the error of PerformUpdate, and the line shown to the user, carry the
\* update error, the rollback error and the path of the backup file.
C10_UnrecoverableReport ==
    (updReplace = "failed" /\ updRollback = "failed") =>
        /\ PerformUpdateReturned
        /\ Contains(updErr, updUpdateErr)
        /\ Contains(updErr, updRollbackErr)
        /\ Contains(updErr, BackupPath)
        /\ Contains(updShown, updErr)

\* The replacement and the rollback have both failed, with the executable
\* gone and the backup still in place.
C10_Witness ==
    /\ updReplace = "failed"
    /\ updRollback = "failed"
    /\ updPc = "returned"
    /\ ~updFiles[ExePath].present
    /\ updFiles[BackupPath] = FileWith(updOriginal)

\* C20: after a successful PerformUpdate the backup file exists at the
\* moment PerformUpdate returns, with its removal pending, and in every run
\* of the update command it is eventually deleted.
C20_BackupCleanup ==
    /\ [](cleanupPending => (updPc = "returned" /\ updErr = Nil /\ updFiles[BackupPath].present))
    /\ [](cleanupPending => <>(~updFiles[BackupPath].present))

(***************************************************************************)
(* The background update check (checkForUpdateBackground) over the         *)
(* invocations of the tool. Times are in hours.                            *)
(***************************************************************************)
\* CheckInterval of updater.go: 24 * time.Hour.
CheckInterval == 24

\* Updater.ShouldCheckForUpdate
ShouldCheckForUpdate(enabled, autoCheck, lastCheck, t) ==
    IF ~enabled \/ ~autoCheck THEN FALSE
    ELSE IF t - lastCheck < CheckInterval THEN FALSE
    ELSE TRUE

\* main, after elapsed hours: the command has run and returned, and main
\* starts checkForUpdateBackground in a goroutine.
Invoke(elapsed) ==
    /\ bgPc = "exited"
    /\ invocations < MaxInvocations
    /\ clock + elapsed <= MaxHours
    /\ invocations' = invocations + 1
    /\ clock' = clock + elapsed
    /\ bgPc' = "spawned"
    /\ bgFailure' = "none"
    /\ bgOutput' = <<>>
    /\ UNCHANGED <<cfgEnabled, cfgAutoCheck, savedLastCheck, queries, exitStatus>>

\* checkForUpdateBackground up to ShouldCheckForUpdate: config.Load,
\* updater.NewUpdater and the rate limit.
BackgroundBegin(loadOk, newUpdaterOk) ==
    /\ bgPc = "spawned"
    /\ IF ~loadOk THEN bgFailure' = "load" /\ bgPc' = "done"
       ELSE IF ~newUpdaterOk THEN bgFailure' = "newUpdater" /\ bgPc' = "done"
       ELSE /\ bgFailure' = bgFailure
            /\ bgPc' = IF ShouldCheckForUpdate(cfgEnabled, cfgAutoCheck, savedLastCheck, clock)
                       THEN "check" ELSE "done"
    /\ UNCHANGED <<clock, cfgEnabled, cfgAutoCheck, savedLastCheck, queries, bgOutput,
                   exitStatus, invocations>>

\* checkForUpdateBackground from CheckForUpdate on. detect is what
\* DetectLatest does: "error", "notFound", "panic", or it finds a release
\* that is "upToDate", "skipped" or "newer". saveOk: Config.Save succeeds.
BackgroundCheck(detect, saveOk) ==
    /\ bgPc = "check"
    /\ bgPc' = "done"
    /\ queries' = Append(queries, clock)
    /\ IF detect \in {"error", "notFound", "panic"}
       THEN /\ bgFailure' = IF detect = "panic" THEN "panic" ELSE "lookup"
            /\ UNCHANGED <<savedLastCheck, bgOutput>>
       ELSE /\ savedLastCheck' = IF saveOk THEN clock ELSE savedLastCheck
            /\ bgFailure' = IF saveOk THEN bgFailure ELSE "save"
            /\ bgOutput' = (IF saveOk THEN <<>> ELSE <<"Warning: failed to save config">>)
                              \o (IF detect = "newer" THEN <<"update notification">> ELSE <<>>)
    /\ UNCHANGED <<clock, cfgEnabled, cfgAutoCheck, exitStatus, invocations>>

\* main returns and the process ends with status 0, wherever the goroutine
\* of the check is.
MainReturns ==
    /\ bgPc \in {"spawned", "check", "done"}
    /\ bgPc' = "exited"
    /\ exitStatus' = 0
    /\ UNCHANGED <<clock, cfgEnabled, cfgAutoCheck, savedLastCheck, queries, bgFailure,
                   bgOutput, invocations>>

\* C17: any two queries of the release source by the background check are
\* at least CheckInterval apart, whatever the outcome of the earlier check.
C17_RateLimit ==
    \A i, j \in DOMAIN queries : i < j => queries[j] - queries[i] >= CheckInterval

\* C18: a failure inside the background check (config load, updater
\* creation, release lookup, config save after the lookup, or a panic)
\* prints nothing about itself (the only line that the check may print is
\* the notification of a newer release) and leaves the exit status of the
\* process as it is.
C18_SilentBackgroundCheck ==
    bgFailure # "none" =>
        /\ \A i \in DOMAIN bgOutput : bgOutput[i] = "update notification"
        /\ exitStatus = 0

(***************************************************************************)
(* The update check: Updater.CheckForUpdate with the version comparison of *)
(* the release (semantic versions) and the skipped version of the          *)
(* configuration, Updater.PromptForUpdate and Updater.SkipVersion.         *)
(***************************************************************************)
\* cleanVersion: strings.TrimPrefix(version, "v").
cleanVersion(version) ==
    IF HasPrefix(version, <<"v">>) THEN SubSeq(version, 2, Len(version)) ELSE version

\* The version of a release or of the running tool as the tuple of its
\* numbers, <<>> when the string is not a version: an optional leading v,
\* then numbers separated by dots.
ParseVersion(s) ==
    LET Digits == <<"0","1","2","3","4","5","6","7","8","9">>
        IsNumber(p) == p # <<>> /\ \A k \in DOMAIN p : \E d \in DOMAIN Digits : Digits[d] = p[k]
        RECURSIVE Atoi(_)
        Atoi(p) == IF p = <<>> THEN 0
                   ELSE 10 * Atoi(SubSeq(p, 1, Len(p) - 1))
                        + (CHOOSE d \in DOMAIN Digits : Digits[d] = p[Len(p)]) - 1
        parts == Split(cleanVersion(s), ".")
    IN IF \A k \in DOMAIN parts : IsNumber(parts[k])
       THEN [k \in DOMAIN parts |-> Atoi(parts[k])]
       ELSE <<>>

\* Release.Version(): the numbers of the version joined with dots.
VersionString(t) ==
    LET Digits == <<"0","1","2","3","4","5","6","7","8","9">>
        RECURSIVE Itoa(_)
        Itoa(n) == IF n < 10 THEN <<Digits[n + 1]>>
                   ELSE Itoa(n \div 10) \o <<Digits[(n % 10) + 1]>>
    IN Join([k \in DOMAIN t |-> Itoa(t[k])], ".")

\* The order of versions: the first number that differs decides.
VersionLess(a, b) ==
    \E k \in DOMAIN a :
        /\ k \in DOMAIN b
        /\ a[k] < b[k]
        /\ \A j \in 1..(k - 1) : a[j] = b[j]

\* CheckForUpdate. detect is what DetectLatest returns ("error", "notFound"
\* or "found", and then tag is the tag of the latest release); unparsable is
\* what Release.LessOrEqual does with a running version that is not a
\* version ("panic", or the value it returns).
CheckForUpdate(detect, tag, unparsable) ==
    LET latest == ParseVersion(tag)
        current == ParseVersion(cleanVersion(chkVersion))
        lessOrEqual == IF current = <<>> THEN unparsable = "true"
                       ELSE ~VersionLess(current, latest)
    IN /\ chkLatest' = IF detect = "found" THEN latest ELSE <<>>
       /\ chkResult' =
             IF detect # "found" THEN "error"
             ELSE IF current = <<>> /\ unparsable = "panic" THEN "panic"
             ELSE IF lessOrEqual THEN "noUpdate"
             ELSE IF chkSkip = VersionString(latest) THEN "noUpdate"
             ELSE "update"
       /\ UNCHANGED <<chkVersion, chkSkip, chkSavedSkip, chkSkipped>>

\* PromptForUpdate for the release that CheckForUpdate returned. action is
\* the choice of the user; "skip" calls SkipVersion, which sets the skipped
\* version of the configuration and saves it.
PromptForUpdate(action, saveOk) ==
    /\ chkResult = "update"
    /\ chkResult' = "prompted"
    /\ IF action = "skip"
       THEN /\ chkSkip' = VersionString(chkLatest)
            /\ chkSavedSkip' = IF saveOk THEN VersionString(chkLatest) ELSE chkSavedSkip
            /\ chkSkipped' = chkSkipped \cup {chkLatest}
       ELSE UNCHANGED <<chkSkip, chkSavedSkip, chkSkipped>>
    /\ UNCHANGED <<chkVersion, chkLatest>>

\* The next process of the tool: config.Load reads the saved configuration.
NextProcess ==
    /\ chkSkip' = chkSavedSkip
    /\ chkResult' = "none"
    /\ chkLatest' = <<>>
    /\ UNCHANGED <<chkVersion, chkSavedSkip, chkSkipped>>

\* C21: CheckForUpdate returns a release if and only if the version of the
\* latest release is strictly greater than the running version (as tuples
\* of numbers, a leading v ignored) and is not the skipped version of the
\* configuration; and once SkipVersion was called for a version, no later
\* CheckForUpdate whose latest release is that version returns an update.
\* The running version is a version here, not the "dev" of a plain build.
C21_UpdateAvailability ==
    /\ (chkResult \in {"update", "noUpdate"} /\ ParseVersion(chkVersion) # <<>>) =>
          (chkResult = "update" <=>
              /\ VersionLess(ParseVersion(chkVersion), chkLatest)
              /\ chkSkip # VersionString(chkLatest))
    /\ (chkResult \in {"update", "noUpdate"} /\ ParseVersion(chkVersion) # <<>>
           /\ chkLatest \in chkSkipped) =>
          chkResult = "noUpdate"

(***************************************************************************)
(* SpecRewrite: updatePath applied once, then again with the new home      *)
(* as the old home.                                                        *)
(***************************************************************************)
RewriteOnce ==
    /\ rwPc = "start"
    /\ rwOnce' = updatePath(rwCurrent, rwOld, rwNew)
    /\ rwPc' = "once"
    /\ UNCHANGED <<rwCurrent, rwOld, rwNew, rwTwice>>

RewriteTwice ==
    /\ rwPc = "once"
    /\ rwTwice' = updatePath(rwOnce, rwNew, rwNew)
    /\ rwPc' = "twice"
    /\ UNCHANGED <<rwCurrent, rwOld, rwNew, rwOnce>>

\* C1: applying the rewrite a second time with the same new home directory
\* yields the same list as applying it once.
C1_Idempotent == rwPc = "twice" => rwTwice = rwOnce

\* C13: every segment of L that is oldHome's bin subfolder in any casing is
\* absent from updatePath(L, oldHome, newHome); every segment that is
\* unrelated to oldHome (not blank, not oldHome or a path below it, and
\* without a reference to the home variable) is kept; and
\* L = [C:\X\bin, D:\T], oldHome = C:\X, newHome = C:\Y gives
\* [%JAVA_HOME%\bin, D:\T].
C13_OldHomeRemoved ==
    (rwPc = "once" /\ rwOld # NoHome) =>
        LET in == Split(rwCurrent, ";")
            out == Split(rwOnce, ";")
            home == ToLower(Clean(rwOld))
            below(seg) == \/ ToLower(Clean(seg)) = home
                          \/ HasPrefix(ToLower(Clean(seg)), home \o <<"\\">>)
            unrelated(seg) == /\ TrimSpace(seg) # <<>>
                              /\ ~below(TrimSpace(seg))
                              /\ ~Contains(ToUpper(seg), <<"%","J","A","V","A","_","H","O","M","E","%">>)
        IN /\ \A i \in DOMAIN in :
                  EqualFold(in[i], FilepathJoin(rwOld, Bin)) =>
                      \A j \in DOMAIN out : ~EqualFold(out[j], in[i])
           /\ \A i \in DOMAIN in :
                  unrelated(in[i]) => \E j \in DOMAIN out : out[j] = TrimSpace(in[i])
           /\ (rwCurrent = Join(<<<<"C",":","\\","X","\\","b","i","n">>, SegOther>>, ";") /\ rwOld = HomeX /\ rwNew = HomeY) =>
                  rwOnce = Join(<<JavaHomeBinRef, SegOther>>, ";")

\* C14: the list that updatePath produces has no two segments that are equal
\* under case-insensitive comparison.
C14_Deduplicated ==
    rwPc = "once" =>
        LET out == Split(rwOnce, ";")
        IN \A i, j \in DOMAIN out : i # j => ~EqualFold(out[i], out[j])

\* C23: for every current list and every old and new home, the empty old
\* home included, the result of updatePath starts with the segment
\* %JAVA_HOME%\bin, and no other segment of it contains %JAVA_HOME% in
\* any letter case.
C23_OneReferenceFirst ==
    rwPc = "once" =>
        LET out == Split(rwOnce, ";")
        IN /\ out # <<>>
           /\ out[1] = JavaHomeBinRef
           /\ \A i \in DOMAIN out :
                 i > 1 => ~Contains(ToLower(out[i]), ToLower(SubSeq(JavaHomeBinRef, 1, 11)))

\* The old home is empty and the current list holds two references to the
\* variable, in other letter cases than the one updatePath writes.
C23_Witness ==
    /\ rwPc = "once"
    /\ rwOld = NoHome
    /\ LET in == Split(rwCurrent, ";")
       IN /\ Len(in) = 2
          /\ in[1] # in[2]
          /\ \A i \in DOMAIN in :
                /\ in[i] # JavaHomeBinRef
                /\ Contains(ToUpper(in[i]), SubSeq(JavaHomeBinRef, 1, 11))
    /\ rwOnce = JavaHomeBinRef

(***************************************************************************)
(* Installer.InstallVersion fetching the download information: WithSpinner *)
(* runs fn in a goroutine next to the spinner program, fn stores what      *)
(* GetDownloadURL returns in the captured downloadInfo and fetchErr, and   *)
(* InstallVersion reads them after WithSpinner has returned.               *)
(***************************************************************************)
\* AdoptiumDistributor.GetDownloadURL on a response of the metadata source:
\* <<downloadInfo, err>>. A nil *DownloadInfo is <<>>, a non-nil one is a
\* sequence of one record. The fields of the first asset are copied as
\* they were decoded: a field the response leaves out is "" or 0.
GetDownloadURL(resp) ==
    IF resp.outcome = "requestFailed" THEN <<<<>>, <<"failed to query download URL">>>>
    ELSE IF resp.outcome = "status" THEN <<<<>>, <<"API returned status">>>>
    ELSE IF resp.outcome = "readFailed" THEN <<<<>>, <<"failed to read response">>>>
    ELSE IF resp.outcome = "parseFailed" THEN <<<<>>, <<"failed to parse response">>>>
    ELSE IF resp.outcome = "noAssets" THEN <<<<>>, <<"no JDK found">>>>
    ELSE <<<<[URL |-> resp.link, Checksum |-> resp.checksum, ChecksumAlgo |-> "SHA256",
              Size |-> resp.size, FileName |-> resp.name]>>, Nil>>

\* InstallVersion up to the call of WithSpinner: downloadInfo and fetchErr
\* are declared with their zero values, the program of the spinner is
\* created and the goroutine is started.
InstallVersionFetch(resp) ==
    /\ ivPc = "idle"
    /\ ivPc' = "spinner"
    /\ goPc' = "sleeping"
    /\ progPc' = "running"
    /\ ivResponse' = resp
    /\ ivDownloadInfo' = <<>>
    /\ ivFetchErr' = Nil
    /\ UNCHANGED <<ivSpinnerErr, ivInfo, ivErr>>

\* One step of the goroutine of WithSpinner: the sleep of 100 ms ends, fn
\* calls GetDownloadURL and stores downloadInfo, fn stores fetchErr and
\* returns, p.Send hands the finished message to the program. The goroutine
\* runs on whether or not WithSpinner has returned; it ends with the process
\* when InstallVersion has returned an error or panicked.
Goroutine ==
    /\ goPc \in {"sleeping", "calling", "storedInfo", "fnDone"}
    /\ ivPc \in {"spinner", "afterSpinner", "installing"}
    /\ goPc' = CASE goPc = "sleeping" -> "calling"
                 [] goPc = "calling" -> "storedInfo"
                 [] goPc = "storedInfo" -> "fnDone"
                 [] goPc = "fnDone" -> "sent"
    /\ ivDownloadInfo' = IF goPc = "calling" THEN GetDownloadURL(ivResponse)[1] ELSE ivDownloadInfo
    /\ ivFetchErr' = IF goPc = "storedInfo" THEN GetDownloadURL(ivResponse)[2] ELSE ivFetchErr
    /\ UNCHANGED <<ivPc, progPc, ivResponse, ivSpinnerErr, ivInfo, ivErr>>

\* spinnerModel.Update on a message of the running program: ctrl+c and the
\* finished message (which is there once the goroutine has sent it) return
\* tea.Quit, every other key and the tick of the spinner leave it running.
Update(msg) ==
    /\ progPc = "running"
    /\ ivPc = "spinner"
    /\ msg = "finished" => goPc = "sent"
    /\ progPc' = IF msg = "ctrl+c" THEN "quitCtrlC"
                 ELSE IF msg = "finished" THEN "quitFinished"
                 ELSE "running"
    /\ UNCHANGED <<ivPc, goPc, ivResponse, ivDownloadInfo, ivFetchErr, ivSpinnerErr, ivInfo, ivErr>>

\* WithSpinner returns: p.Run has returned, with an error (runOk false: the
\* program could not start or run) or after tea.Quit. The error fn returned
\* stays in the model of the program; WithSpinner returns nil.
WithSpinnerReturns(runOk) ==
    /\ ivPc = "spinner"
    /\ IF runOk THEN progPc \in {"quitCtrlC", "quitFinished"} ELSE progPc = "running"
    /\ progPc' = IF runOk THEN progPc ELSE "runError"
    /\ ivSpinnerErr' = IF runOk THEN Nil ELSE <<"program error">>
    /\ ivPc' = "afterSpinner"
    /\ UNCHANGED <<goPc, ivResponse, ivDownloadInfo, ivFetchErr, ivInfo, ivErr>>

\* InstallVersion after WithSpinner: it returns spinnerErr, returns the
\* wrapped fetchErr, or reads downloadInfo.FileName and downloadInfo.Size (a
\* nil pointer dereference when downloadInfo is nil) and starts InstallJDK
\* with downloadInfo.
InstallVersionProceed ==
    /\ ivPc = "afterSpinner"
    /\ IF ivSpinnerErr # Nil
       THEN ivPc' = "returned" /\ ivErr' = ivSpinnerErr /\ ivInfo' = ivInfo
       ELSE IF ivFetchErr # Nil
       THEN ivPc' = "returned" /\ ivErr' = Wrap("failed to get download URL", ivFetchErr) /\ ivInfo' = ivInfo
       ELSE IF ivDownloadInfo = <<>>
       THEN ivPc' = "panicked" /\ ivErr' = ivErr /\ ivInfo' = ivInfo
       ELSE ivPc' = "installing" /\ ivErr' = ivErr /\ ivInfo' = ivDownloadInfo
    /\ UNCHANGED <<goPc, progPc, ivResponse, ivDownloadInfo, ivFetchErr, ivSpinnerErr>>

\* C25: WithSpinner returns only after fn has finished: once WithSpinner
\* has returned, the goroutine has stored downloadInfo and fetchErr, so what
\* the caller reads is what fn obtained from GetDownloadURL - in every
\* interleaving, also with ctrl+c pressed while the spinner is shown.
C25_SpinnerWaitsForFn ==
    ivPc \in {"afterSpinner", "returned", "panicked", "installing"} =>
        /\ goPc \in {"fnDone", "sent"}
        /\ ivDownloadInfo = GetDownloadURL(ivResponse)[1]
        /\ ivFetchErr = GetDownloadURL(ivResponse)[2]

\* C26: InstallVersion starts InstallJDK only with a DownloadInfo that is
\* not nil and has URL, size, checksum and file name populated, for every
\* response of the metadata source and every interleaving of the fetch with
\* the spinner.
C26_DownloadInfoComplete ==
    ivPc = "installing" =>
        /\ ivInfo # <<>>
        /\ ivInfo[1].URL # <<>>
        /\ ivInfo[1].Size > 0
        /\ ivInfo[1].Checksum # <<>>
        /\ ivInfo[1].FileName # <<>>

\* C30: after the prepended reference, the result of updatePath holds
\* exactly the trimmed non-blank segments of the current list that neither
\* equal the bin subfolder of the old home, nor contain the old home
\* (letter case ignored), nor contain %JAVA_HOME%, each as often as it
\* occurs and in the order of the current list; with an empty old home only
\* blank segments and segments that contain %JAVA_HOME% are dropped.
C30_UnrelatedPreserved ==
    rwPc = "once" =>
        LET in == Split(rwCurrent, ";")
            out == Split(rwOnce, ";")
            trimmed == [i \in DOMAIN in |-> TrimSpace(in[i])]
            Unrelated(p) ==
                /\ p # <<>>
                /\ ~Contains(ToUpper(p), SubSeq(JavaHomeBinRef, 1, 11))
                /\ rwOld # NoHome =>
                      /\ ~EqualFold(p, FilepathJoin(rwOld, Bin))
                      /\ ~Contains(ToLower(p), ToLower(rwOld))
        IN /\ out # <<>>
           /\ Tail(out) = SelectSeq(trimmed, Unrelated)

\* The old home is C:\X and the current list holds two different segments
\* that have nothing to do with it, one of them padded with blanks: both
\* follow the reference, trimmed and in their order.
C30_Witness ==
    /\ rwPc = "once"
    /\ rwOld = HomeX
    /\ rwCurrent = Join(<<<<" ","D",":","\\","T"," ">>, <<"C",":","\\","Y","\\","b","i","n">>>>, ";")
    /\ rwOnce = Join(<<JavaHomeBinRef, SegOther, <<"C",":","\\","Y","\\","b","i","n">>>>, ";")

(***************************************************************************)
(* The specifications: one per part of the program, the other parts idle.  *)
(***************************************************************************)
\* The parts of the program that a specification leaves alone: every part
\* outside running keeps the values it has before any of its operations.
Idle(running) ==
    /\ IF "rewrite" \in running THEN TRUE
       ELSE /\ rwCurrent = <<>>
            /\ rwOld = <<>>
            /\ rwNew = <<>>
            /\ rwOnce = <<>>
            /\ rwTwice = <<>>
            /\ rwPc = "off"
    /\ IF "env" \in running THEN TRUE
       ELSE /\ regHome = Missing
            /\ regPath = Missing
            /\ broadcasts = 0
            /\ sjhPc = "off"
            /\ sjhJavaPath = <<>>
            /\ sjhCurrentPath = <<>>
            /\ sjhOldJavaHome = <<>>
            /\ sjhResult = "none"
            /\ sjhCalls = 0
    /\ IF "install" \in running THEN TRUE
       ELSE /\ ijPc = "off"
            /\ ijVersion = <<>>
            /\ ijSystemWide = FALSE
            /\ ijChecksum = <<>>
            /\ ijServed = 0
            /\ stagingExists = FALSE
            /\ zipFile = NoFile
            /\ extractFiles = {}
            /\ bgExtract = "none"
            /\ ijTransfer = ([net |-> "none", totalSize |-> 0, sent |-> 0])
            /\ ijDownloaded = NoFile
            /\ ijExtractedPath = <<>>
            /\ ijFinalBefore = Absent
            /\ finalDir = Absent
            /\ ijErr = Nil
            /\ ijPath = <<>>
            /\ ijPhases = {}
    /\ IF "config" \in running THEN TRUE
       ELSE /\ installedJDKs = <<>>
            /\ customPaths = <<>>
            /\ savedJDKs = <<>>
            /\ cfgLast = [op |-> "off"]
            /\ cfgClock = 0
            /\ pipelineOk = {}
    /\ IF "update" \in running THEN TRUE
       ELSE /\ updFiles = [p \in {ExePath, BackupPath} |-> NoSuchFile]
            /\ updPc = "off"
            /\ updAsset = <<>>
            /\ updOriginal = <<>>
            /\ updBackup = "none"
            /\ updReplace = "none"
            /\ updRollback = "none"
            /\ updAfterReplace = NoSuchFile
            /\ updUpdateErr = Nil
            /\ updRollbackErr = Nil
            /\ updErr = Nil
            /\ updShown = <<>>
            /\ cleanupPending = FALSE
            /\ updRuns = 0
    /\ IF "background" \in running THEN TRUE
       ELSE /\ clock = 0
            /\ cfgEnabled = TRUE
            /\ cfgAutoCheck = TRUE
            /\ savedLastCheck = 0
            /\ bgPc = "off"
            /\ queries = <<>>
            /\ bgFailure = "none"
            /\ bgOutput = <<>>
            /\ exitStatus = 0
            /\ invocations = 0
    /\ IF "menu" \in running THEN TRUE
       ELSE /\ menuCall = [flow |-> "none", fetch |-> "none", ui |-> "none"]
            /\ menuOptions = <<>>
            /\ menuShown = FALSE
            /\ menuOutput = <<>>
            /\ menuSelected = <<>>
            /\ menuErr = Nil
    /\ IF "check" \in running THEN TRUE
       ELSE /\ chkVersion = <<>>
            /\ chkSkip = <<>>
            /\ chkSavedSkip = <<>>
            /\ chkLatest = <<>>
            /\ chkResult = "off"
            /\ chkSkipped = {}
    /\ IF "fetch" \in running THEN TRUE
       ELSE /\ ivPc = "off"
            /\ goPc = "none"
            /\ progPc = "off"
            /\ ivResponse = [outcome |-> "none"]
            /\ ivDownloadInfo = <<>>
            /\ ivFetchErr = Nil
            /\ ivSpinnerErr = Nil
            /\ ivInfo = <<>>
            /\ ivErr = Nil

RewriteInit ==
    /\ rwCurrent \in PathPool
    /\ rwOld \in HomePool
    /\ rwNew \in HomePool \ {NoHome}
    /\ rwOnce = <<>>
    /\ rwTwice = <<>>
    /\ rwPc = "start"
    /\ Idle({"rewrite"})

RewriteNext ==
    \/ RewriteOnce /\ UNCHANGED <<envVars, ijVars, cfgVars, updVars, bgVars, menuVars, chkVars, fetchVars>>
    \/ RewriteTwice /\ UNCHANGED <<envVars, ijVars, cfgVars, updVars, bgVars, menuVars, chkVars, fetchVars>>

SpecRewrite == RewriteInit /\ [][RewriteNext]_vars

EnvInit ==
    /\ regHome \in {Missing} \cup {Value(h) : h \in HomePool}
    /\ regPath \in {Missing} \cup {Value(p) : p \in PathPool}
    /\ broadcasts = 0
    /\ sjhPc = "idle"
    /\ sjhJavaPath = <<>>
    /\ sjhCurrentPath = <<>>
    /\ sjhOldJavaHome = <<>>
    /\ sjhResult = "none"
    /\ sjhCalls = 0
    /\ Idle({"env"})

EnvNext ==
    \/ \E javaPath \in {HomeX, (<<"C",":","\\","X","\\">>), HomeY}, openOk \in BOOLEAN, setHomeOk \in BOOLEAN :
          SetJavaHomeBegin(javaPath, openOk, setHomeOk) /\ UNCHANGED <<rwVars, ijVars, cfgVars, updVars, bgVars, menuVars, chkVars, fetchVars>>
    \/ \E setPathOk \in BOOLEAN :
          SetJavaHomeFinish(setPathOk) /\ UNCHANGED <<rwVars, ijVars, cfgVars, updVars, bgVars, menuVars, chkVars, fetchVars>>

SpecEnv == EnvInit /\ [][EnvNext]_vars

InstallInit ==
    /\ ijPc = "idle"
    /\ ijVersion = <<>>
    /\ ijSystemWide = FALSE
    /\ ijChecksum = <<>>
    /\ ijServed = 0
    /\ stagingExists = FALSE
    /\ zipFile = NoFile
    /\ extractFiles = {}
    /\ bgExtract = "none"
    /\ ijTransfer = ([net |-> "none", totalSize |-> 0, sent |-> 0])
    /\ ijDownloaded = NoFile
    /\ ijExtractedPath = <<>>
    /\ ijFinalBefore = Absent
    /\ finalDir \in {Absent, Dir(OldTree)}
    /\ ijErr = Nil
    /\ ijPath = <<>>
    /\ ijPhases = {}
    /\ Idle({"install"})

InstallNext ==
    \/ \E version \in VersionPool, isSystemWide \in BOOLEAN, checksum \in (UNION {{Sha256Hex(FileOf(a, MaxBytes)), ToUpper(Sha256Hex(FileOf(a, MaxBytes)))} : a \in ArchiveIds}),
          served \in ArchiveIds, mkBaseOk \in BOOLEAN, mkTempOk \in BOOLEAN :
          InstallBegin(version, isSystemWide, checksum, served, mkBaseOk, mkTempOk)
             /\ UNCHANGED <<rwVars, envVars, cfgVars, updVars, bgVars, menuVars, chkVars, fetchVars>>
    \/ \E net \in {"createFail", "getFail", "badStatus", "copyFail", "copied"},
          totalSize \in -1..MaxBytes, sent \in 0..MaxBytes :
          InstallDownload(net, totalSize, sent) /\ UNCHANGED <<rwVars, envVars, cfgVars, updVars, bgVars, menuVars, chkVars, fetchVars>>
    \/ \E ui \in SpinnerOutcomes :
          InstallVerify(ui) /\ UNCHANGED <<rwVars, envVars, cfgVars, updVars, bgVars, menuVars, chkVars, fetchVars>>
    \/ \E ui \in SpinnerOutcomes, failAt \in 0..MaxEntries :
          InstallExtract(ui, failAt) /\ UNCHANGED <<rwVars, envVars, cfgVars, updVars, bgVars, menuVars, chkVars, fetchVars>>
    \/ \E failAt \in 0..MaxEntries :
          BackgroundExtract(failAt) /\ UNCHANGED <<rwVars, envVars, cfgVars, updVars, bgVars, menuVars, chkVars, fetchVars>>
    \/ \E cwdHasJava \in BOOLEAN :
          InstallValidate(cwdHasJava) /\ UNCHANGED <<rwVars, envVars, cfgVars, updVars, bgVars, menuVars, chkVars, fetchVars>>
    \/ \E statOk \in BOOLEAN, removeOk \in BOOLEAN, kept \in SUBSET OldTree, renameOk \in BOOLEAN :
          InstallPromote(statOk, removeOk, kept, renameOk) /\ UNCHANGED <<rwVars, envVars, cfgVars, updVars, bgVars, menuVars, chkVars, fetchVars>>

SpecInstall == InstallInit /\ [][InstallNext]_vars

ConfigInit ==
    /\ installedJDKs = <<>>
    /\ customPaths = <<>>
    /\ savedJDKs = <<>>
    /\ cfgLast = [op |-> "none"]
    /\ cfgClock = 0
    /\ pipelineOk = {}
    /\ Idle({"config"})

ConfigNext ==
    \/ \E version \in VersionPool, path \in ConfigPathPool, scope \in ScopePool :
          CallAddInstalledJDK(version, path, scope) /\ UNCHANGED <<rwVars, envVars, ijVars, updVars, bgVars, menuVars, chkVars, fetchVars>>
    \/ \E path \in ConfigPathPool :
          CallRemoveInstalledJDK(path) /\ UNCHANGED <<rwVars, envVars, ijVars, updVars, bgVars, menuVars, chkVars, fetchVars>>

SpecConfig == ConfigInit /\ [][ConfigNext]_vars

BatchInit ==
    /\ installedJDKs = <<>>
    /\ customPaths = <<>>
    /\ savedJDKs = <<>>
    /\ cfgLast = [op |-> "none"]
    /\ cfgClock = 0
    /\ pipelineOk = {}
    /\ regHome = Missing
    /\ regPath = Value(SegOther)
    /\ broadcasts = 0
    /\ sjhPc = "off"
    /\ sjhJavaPath = <<>>
    /\ sjhCurrentPath = <<>>
    /\ sjhOldJavaHome = <<>>
    /\ sjhResult = "none"
    /\ sjhCalls = 0
    /\ Idle({"config", "env"})

BatchNext ==
    \/ \E version \in VersionPool, scope \in ScopePool, isAdmin \in BOOLEAN, ok \in BOOLEAN,
          saveOk \in BOOLEAN, envHasJavaHome \in BOOLEAN, fail \in ({"none", "openKey", "setJavaHome", "setPath"}) :
          RunSingleInstall(version, scope, isAdmin, ok, saveOk, envHasJavaHome, fail)
             /\ UNCHANGED <<rwVars, ijVars, updVars, bgVars, menuVars, chkVars, fetchVars>>
    \/ \E versions \in ({<<>>} \cup {<<v>> : v \in VersionPool} \cup {s \in {<<v, w>> : v \in VersionPool, w \in VersionPool} : s[1] # s[2]}), scope \in ScopePool, isAdmin \in BOOLEAN,
          saveOk \in BOOLEAN, envHasJavaHome \in BOOLEAN, fail \in ({"none", "openKey", "setJavaHome", "setPath"}) :
          \E oks \in [DOMAIN versions -> BOOLEAN] :
             RunMultiInstall(versions, scope, isAdmin, oks, saveOk, envHasJavaHome, fail)
                /\ UNCHANGED <<rwVars, ijVars, updVars, bgVars, menuVars, chkVars, fetchVars>>
    \/ \E path \in ConfigPathPool, saveOk \in BOOLEAN :
          HandleRemove(path, saveOk) /\ UNCHANGED <<rwVars, ijVars, updVars, bgVars, menuVars, chkVars, fetchVars>>

SpecBatch == BatchInit /\ [][BatchNext]_vars

\* The tool is installed and no update has run.
UpdateInit ==
    /\ \E data \in ({<<"M","Z","a">>, <<"M","Z","b">>}) :
          updFiles = [p \in {ExePath, BackupPath} |-> IF p = ExePath THEN FileWith(data) ELSE NoSuchFile]
    /\ updPc = "exited"
    /\ updAsset = <<>>
    /\ updOriginal = <<>>
    /\ updBackup = "none"
    /\ updReplace = "none"
    /\ updRollback = "none"
    /\ updAfterReplace = NoSuchFile
    /\ updUpdateErr = Nil
    /\ updRollbackErr = Nil
    /\ updErr = Nil
    /\ updShown = <<>>
    /\ cleanupPending = FALSE
    /\ updRuns = 0
    /\ Idle({"update"})

UpdateNext ==
    \/ \E asset \in ({<<"M","Z","a">>, <<"M","Z","b">>}) :
          HandleUpdate(asset) /\ UNCHANGED <<rwVars, envVars, ijVars, cfgVars, bgVars, menuVars, chkVars, fetchVars>>
    \/ \E exeOk \in BOOLEAN, readOk \in BOOLEAN, openOk \in BOOLEAN,
          written \in 0..Len(updFiles[ExePath].data) :
          PerformUpdateBackup(exeOk, readOk, openOk, written)
             /\ UNCHANGED <<rwVars, envVars, ijVars, cfgVars, bgVars, menuVars, chkVars, fetchVars>>
    \/ \E outcome \in {"replaced", "untouched", "movedAway"},
          err \in {<<"d","o","w","n","l","o","a","d"," ","f","a","i","l","e","d">>,
                   <<"a","p","p","l","y"," ","f","a","i","l","e","d">>} :
          PerformUpdateReplace(outcome, err) /\ UNCHANGED <<rwVars, envVars, ijVars, cfgVars, bgVars, menuVars, chkVars, fetchVars>>
    \/ \E renameOk \in BOOLEAN :
          PerformUpdateRollback(renameOk) /\ UNCHANGED <<rwVars, envVars, ijVars, cfgVars, bgVars, menuVars, chkVars, fetchVars>>
    \/ RemoveBackupLater /\ UNCHANGED <<rwVars, envVars, ijVars, cfgVars, bgVars, menuVars, chkVars, fetchVars>>
    \/ ProcessExit /\ UNCHANGED <<rwVars, envVars, ijVars, cfgVars, bgVars, menuVars, chkVars, fetchVars>>

SpecUpdate == UpdateInit /\ [][UpdateNext]_vars

\* The scheduling of a run of the update command: the process goes on from
\* step to step until it exits, and the goroutine that PerformUpdate starts
\* removes the backup if the process lives until the end of its delay.
SpecUpdateFair ==
    /\ SpecUpdate
    /\ WF_vars(updPc # "exited" /\ UpdateNext)
    /\ WF_vars(RemoveBackupLater /\ UNCHANGED <<rwVars, envVars, ijVars, cfgVars, bgVars, menuVars, chkVars, fetchVars>>)

\* No invocation yet: the configuration holds the zero time as LastCheck
\* (hour 0, at least CheckInterval before the first invocation) and the
\* update settings that Load sets or the user has written.
BackgroundInit ==
    /\ clock = CheckInterval
    /\ cfgEnabled \in BOOLEAN
    /\ cfgAutoCheck \in BOOLEAN
    /\ savedLastCheck = 0
    /\ bgPc = "exited"
    /\ queries = <<>>
    /\ bgFailure = "none"
    /\ bgOutput = <<>>
    /\ exitStatus = 0
    /\ invocations = 0
    /\ Idle({"background"})

BackgroundNext ==
    \/ \E elapsed \in {0, 12, 24} :
          Invoke(elapsed) /\ UNCHANGED <<rwVars, envVars, ijVars, cfgVars, updVars, menuVars, chkVars, fetchVars>>
    \/ \E loadOk \in BOOLEAN, newUpdaterOk \in BOOLEAN :
          BackgroundBegin(loadOk, newUpdaterOk)
             /\ UNCHANGED <<rwVars, envVars, ijVars, cfgVars, updVars, menuVars, chkVars, fetchVars>>
    \/ \E detect \in {"error", "notFound", "panic", "upToDate", "skipped", "newer"},
          saveOk \in BOOLEAN :
          BackgroundCheck(detect, saveOk) /\ UNCHANGED <<rwVars, envVars, ijVars, cfgVars, updVars, menuVars, chkVars, fetchVars>>
    \/ MainReturns /\ UNCHANGED <<rwVars, envVars, ijVars, cfgVars, updVars, menuVars, chkVars, fetchVars>>

SpecBackground == BackgroundInit /\ [][BackgroundNext]_vars

\* No menu has been shown.
DiscoveryInit ==
    /\ menuCall = [flow |-> "none", fetch |-> "none", ui |-> "none"]
    /\ menuOptions = <<>>
    /\ menuShown = FALSE
    /\ menuOutput = <<>>
    /\ menuSelected = <<>>
    /\ menuErr = Nil
    /\ Idle({"menu"})

\* The responses of the release source: available_releases holds up to
\* MaxReleases major versions, available_lts_releases up to one.
DiscoveryNext ==
    \/ \E fetch \in {"requestError", "badStatus", "readError", "parseError", "ok"},
          n \in 0..MaxReleases, l \in 0..1, ui \in SpinnerOutcomes, pick \in 0..Len(getFallbackVersions) :
          \E all \in [1..n -> {8, 11, 17, 21}], lts \in [1..l -> {8, 11, 17, 21}] :
             ShowVersionMenu(fetch, [available_releases |-> all, available_lts_releases |-> lts], ui, pick)
                /\ UNCHANGED <<rwVars, envVars, ijVars, cfgVars, updVars, bgVars, chkVars, fetchVars>>
    \/ \E fetch \in {"requestError", "badStatus", "readError", "parseError", "ok"},
          n \in 0..MaxReleases, l \in 0..1, ui \in SpinnerOutcomes, formOk \in BOOLEAN,
          picks \in SUBSET (1..MaxReleases) :
          \E all \in [1..n -> {8, 11, 17, 21}], lts \in [1..l -> {8, 11, 17, 21}] :
             SelectMultipleVersions(fetch, [available_releases |-> all, available_lts_releases |-> lts],
                                    ui, formOk, picks)
                /\ UNCHANGED <<rwVars, envVars, ijVars, cfgVars, updVars, bgVars, chkVars, fetchVars>>

SpecDiscovery == DiscoveryInit /\ [][DiscoveryNext]_vars

\* A process of the tool has loaded the configuration: no version is
\* skipped, or one was skipped earlier. The running version is the one the
\* build set, with or without a leading v, or "dev" when it set none.
CheckInit ==
    /\ chkVersion \in {<<"1",".","2",".","0">>, <<"v","1",".","2",".","0">>, <<"1",".","1","0",".","0">>, <<"d","e","v">>}
    /\ chkSavedSkip \in {<<>>, <<"1",".","3",".","0">>}
    /\ chkSkip = chkSavedSkip
    /\ chkLatest = <<>>
    /\ chkResult = "none"
    /\ chkSkipped = {}
    /\ Idle({"check"})

CheckNext ==
    \/ \E detect \in {"error", "notFound", "found"},
          tag \in {<<"v","1",".","2",".","0">>, <<"v","1",".","3",".","0">>, <<"v","1",".","1","0",".","0">>, <<"v","2",".","0",".","0">>},
          unparsable \in {"panic", "true", "false"} :
          CheckForUpdate(detect, tag, unparsable)
             /\ UNCHANGED <<rwVars, envVars, ijVars, cfgVars, updVars, bgVars, menuVars, fetchVars>>
    \/ \E action \in {"update", "skip", "later"}, saveOk \in BOOLEAN :
          PromptForUpdate(action, saveOk)
             /\ UNCHANGED <<rwVars, envVars, ijVars, cfgVars, updVars, bgVars, menuVars, fetchVars>>
    \/ NextProcess /\ UNCHANGED <<rwVars, envVars, ijVars, cfgVars, updVars, bgVars, menuVars, fetchVars>>

SpecCheck == CheckInit /\ [][CheckNext]_vars

\* InstallVersion is called once; the metadata source answers with a
\* failure or with a list of assets whose first asset has each of link,
\* checksum, size and name present or left out.
FetchInit ==
    /\ ivPc = "idle"
    /\ goPc = "none"
    /\ progPc = "off"
    /\ ivResponse = [outcome |-> "none"]
    /\ ivDownloadInfo = <<>>
    /\ ivFetchErr = Nil
    /\ ivSpinnerErr = Nil
    /\ ivInfo = <<>>
    /\ ivErr = Nil
    /\ Idle({"fetch"})

FetchNext ==
    \/ \E resp \in [outcome : {"requestFailed", "status", "readFailed", "parseFailed", "noAssets"}]
                   \cup [outcome : {"assets"},
                         link : {<<>>, <<"h","t","t","p","s",":","/","/","a","/","j",".","z","i","p">>},
                         checksum : {<<>>, <<"a","b">>},
                         size : {0, MaxBytes},
                         name : {<<>>, <<"j",".","z","i","p">>}] :
          InstallVersionFetch(resp)
             /\ UNCHANGED <<rwVars, envVars, ijVars, cfgVars, updVars, bgVars, menuVars, chkVars>>
    \/ Goroutine /\ UNCHANGED <<rwVars, envVars, ijVars, cfgVars, updVars, bgVars, menuVars, chkVars>>
    \/ \E msg \in {"ctrl+c", "finished", "q"} :
          Update(msg) /\ UNCHANGED <<rwVars, envVars, ijVars, cfgVars, updVars, bgVars, menuVars, chkVars>>
    \/ \E runOk \in BOOLEAN :
          WithSpinnerReturns(runOk) /\ UNCHANGED <<rwVars, envVars, ijVars, cfgVars, updVars, bgVars, menuVars, chkVars>>
    \/ InstallVersionProceed /\ UNCHANGED <<rwVars, envVars, ijVars, cfgVars, updVars, bgVars, menuVars, chkVars>>

SpecFetch == FetchInit /\ [][FetchNext]_vars

====
